---- MODULE Spec2Model ----
(***************************************************************************)
(* Model of the request logger middleware of nestjs-request-logger: the    *)
(* utilities (PathMatcher, HeaderSanitizer, HeaderFieldExtractor,          *)
(* LogMessageFormatter) as operators, and RequestLoggerMiddleware.use with *)
(* the response's finish notification as a state machine.                  *)
(*                                                                         *)
(* Strings that the code inspects character by character (paths, patterns, *)
(* header names) are sequences of one-character strings.  A log line is a  *)
(* sequence whose elements are those characters and the atoms the code     *)
(* interpolates whole (the template's literal text, a method, a value).    *)
(***************************************************************************)
EXTENDS Integers, Sequences, FiniteSets, TLC

VARIABLES options, reqs, ress, phase, sink, nextCalls, effects, call

vars == <<options, reqs, ress, phase, sink, nextCalls, effects, call>>

-----------------------------------------------------------------------------
(* Bounds of the model.                                                    *)

\* Requests that pass through the one middleware instance.
MaxRequests == 2
\* Headers in a mapping drawn for the pure-function specifications.
MaxHeaders == 2

Rids == 1..MaxRequests

-----------------------------------------------------------------------------
(* String helpers: String.prototype methods used by the code.              *)

\* The lower-case form of the upper-case letters
LowerOf ==
    ("A" :> "a") @@ ("B" :> "b") @@ ("C" :> "c") @@ ("D" :> "d") @@ ("E" :> "e")
    @@ ("F" :> "f") @@ ("G" :> "g") @@ ("H" :> "h") @@ ("I" :> "i") @@ ("J" :> "j")
    @@ ("K" :> "k") @@ ("L" :> "l") @@ ("M" :> "m") @@ ("N" :> "n") @@ ("O" :> "o")
    @@ ("P" :> "p") @@ ("Q" :> "q") @@ ("R" :> "r") @@ ("S" :> "s") @@ ("T" :> "t")
    @@ ("U" :> "u") @@ ("V" :> "v") @@ ("W" :> "w") @@ ("X" :> "x") @@ ("Y" :> "y")
    @@ ("Z" :> "z")

\* The lower-case form of one character
LowerChar(c) == IF c \in DOMAIN LowerOf THEN LowerOf[c] ELSE c

\* key.toLowerCase()
ToLowerCase(s) == [i \in 1..Len(s) |-> LowerChar(s[i])]

\* s.includes(c) for a one-character c
Includes(s, c) == \E i \in 1..Len(s) : s[i] = c

\* Index of the first occurrence of c in s, Len(s) + 1 when there is none.
IndexOf(s, c) ==
    IF Includes(s, c) THEN CHOOSE i \in 1..Len(s) : s[i] = c /\ \A j \in 1..(i - 1) : s[j] # c
    ELSE Len(s) + 1

\* s.split(c): the pieces of s between the occurrences of c.
RECURSIVE Split(_, _)
Split(s, c) ==
    IF ~Includes(s, c) THEN <<s>>
    ELSE <<SubSeq(s, 1, IndexOf(s, c) - 1)>> \o Split(SubSeq(s, IndexOf(s, c) + 1, Len(s)), c)

\* pieces.join(sep), sep a sequence
RECURSIVE Join(_, _)
Join(pieces, sep) ==
    IF Len(pieces) = 0 THEN <<>>
    ELSE IF Len(pieces) = 1 THEN pieces[1]
    ELSE pieces[1] \o sep \o Join(Tail(pieces), sep)

\* The elements of a sequence, as a set.
Range(s) == {s[i] : i \in 1..Len(s)}

-----------------------------------------------------------------------------
(* Header values.  v holds the value's string form (String(value)) for a   *)
(* scalar and the elements for an array; props holds an object's own       *)
(* properties in insertion order.                                          *)

Str(a) == [t |-> "str", v |-> <<a>>, props |-> <<>>]
EmptyStr == [t |-> "str", v |-> <<>>, props |-> <<>>]
Arr(elems) == [t |-> "arr", v |-> elems, props |-> <<>>]
Null == [t |-> "null", v |-> <<"null">>, props |-> <<>>]
Undefined == [t |-> "undefined", v |-> <<"undefined">>, props |-> <<>>]
Bool(a) == [t |-> "bool", v |-> <<a>>, props |-> <<>>]
Obj(props) == [t |-> "obj", v |-> <<"[object Object]">>, props |-> props]

\* One entry of a headers mapping (or one property of an object value).
Entry(k, val) == [key |-> k, value |-> val]

\* Object.keys(headers), in iteration order
Keys(headers) == [i \in 1..Len(headers) |-> headers[i].key]

\* headers[key]; undefined when the mapping has no such key
Get(headers, k) ==
    IF \E i \in 1..Len(headers) : headers[i].key = k
    THEN headers[CHOOSE i \in 1..Len(headers) : headers[i].key = k].value
    ELSE Undefined

-----------------------------------------------------------------------------
(* Header names used by the configurations and requests of the model.      *)

authorization == <<"a", "u", "t", "h", "o", "r", "i", "z", "a", "t", "i", "o", "n">>
Authorization == <<"A", "u", "t", "h", "o", "r", "i", "z", "a", "t", "i", "o", "n">>
cookie == <<"c", "o", "o", "k", "i", "e">>
set_cookie == <<"s", "e", "t", "-", "c", "o", "o", "k", "i", "e">>
x_api_key == <<"x", "-", "a", "p", "i", "-", "k", "e", "y">>
X_Api_Key == <<"X", "-", "A", "p", "i", "-", "K", "e", "y">>
content_type == <<"c", "o", "n", "t", "e", "n", "t", "-", "t", "y", "p", "e">>
Content_Type == <<"C", "o", "n", "t", "e", "n", "t", "-", "T", "y", "p", "e">>
x_secret == <<"x", "-", "s", "e", "c", "r", "e", "t">>

DEFAULT_SENSITIVE_HEADERS == <<authorization, cookie, set_cookie, x_api_key>>

REDACTED == Str("[REDACTED]")

-----------------------------------------------------------------------------
(* HeaderSanitizer.  An optional constructor argument is a record          *)
(* [given, list]: given = FALSE is the argument left out (undefined).      *)

Given(list) == [given |-> TRUE, list |-> list]
NotGiven == [given |-> FALSE, list |-> <<>>]

\* The set of names a mutated constructor would keep: the names as written.
SensitiveSetAsWritten(sensitiveHeaders) ==
    IF sensitiveHeaders.given THEN Range(sensitiveHeaders.list)
    ELSE Range(DEFAULT_SENSITIVE_HEADERS)

\* constructor: this.sensitiveSet
SensitiveSet(sensitiveHeaders) ==
    IF sensitiveHeaders.given
    THEN {ToLowerCase(sensitiveHeaders.list[i]) : i \in 1..Len(sensitiveHeaders.list)}
    ELSE {ToLowerCase(DEFAULT_SENSITIVE_HEADERS[i]) : i \in 1..Len(DEFAULT_SENSITIVE_HEADERS)}

\* A sanitize that looks the key up as received, without lower-casing it.
SanitizeCaseSensitive(sensitiveHeaders, headers) ==
    IF ~headers.given THEN <<>>
    ELSE [i \in 1..Len(headers.list) |->
            Entry(headers.list[i].key,
                  IF headers.list[i].key \in SensitiveSet(sensitiveHeaders)
                  THEN REDACTED ELSE headers.list[i].value)]

\* sanitize(headers): {} for a missing mapping, else a new mapping over the
\* same keys, in the same order.
Sanitize(sensitiveHeaders, headers) ==
    IF ~headers.given THEN <<>>
    ELSE LET sensitiveSet == SensitiveSet(sensitiveHeaders)
         IN  [i \in 1..Len(headers.list) |->
                 Entry(headers.list[i].key,
                       IF ToLowerCase(headers.list[i].key) \in sensitiveSet
                       THEN REDACTED ELSE headers.list[i].value)]

-----------------------------------------------------------------------------
(* HeaderFieldExtractor                                                    *)

\* isNestedPath(path)
IsNestedPath(path) == Includes(path, ".")

\* formatValue(value): arrays joined with ',', String(value) otherwise
FormatValue(value) ==
    IF value.t = "arr" THEN Join([i \in 1..Len(value.v) |-> <<value.v[i]>>], <<",">>)
    ELSE value.v

\* typeof value === 'object' && value !== null
IsObject(value) == value.t \in {"obj", "arr"}

\* current[part]: a property of an object.  The arrays of the model hold
\* strings only, and no path of two or more parts is defined in one.
GetProp(current, part) ==
    IF current.t = "obj" THEN Get(current.props, part) ELSE Undefined

RECURSIVE Walk(_, _)
Walk(current, parts) ==
    IF Len(parts) = 0 THEN current
    ELSE IF current.t \in {"null", "undefined"} THEN Undefined
    ELSE IF ~IsObject(current) THEN Undefined
    ELSE Walk(GetProp(current, parts[1]), Tail(parts))

\* getNestedValue(obj, path)
GetNestedValue(obj, path) == Walk(obj, Split(path, "."))

\* An inner loop that compares the key with the field as written.
EntryMatchesExactCase(fieldPath, entry) ==
    \/ /\ entry.key = fieldPath
       /\ ~Includes(fieldPath, ".")
    \/ /\ Includes(fieldPath, ".")
       /\ entry.value.t \in {"obj", "arr"}
       /\ Walk(entry.value, Split(fieldPath, ".")).t # "undefined"

\* Whether the inner loop of extract() pushes a part at this entry.
EntryMatches(fieldPath, entry) ==
    \/ /\ ToLowerCase(entry.key) = ToLowerCase(fieldPath)
       /\ ~IsNestedPath(fieldPath)
    \/ /\ IsNestedPath(fieldPath)
       /\ IsObject(entry.value)
       /\ GetNestedValue(entry.value, fieldPath).t # "undefined"

\* The part pushed at a matching entry.
PartOf(fieldPath, entry) ==
    IF ToLowerCase(entry.key) = ToLowerCase(fieldPath) /\ ~IsNestedPath(fieldPath)
    THEN entry.key \o <<"=">> \o FormatValue(entry.value)
    ELSE fieldPath \o <<"=">> \o FormatValue(GetNestedValue(entry.value, fieldPath))

\* The parts of one configured field: the part of the first matching entry
\* (the inner loop breaks there), none when no entry matches.
FieldParts(fieldPath, headers) ==
    LET matching == {i \in 1..Len(headers) : EntryMatches(fieldPath, headers[i])}
    IN  IF matching # {}
        THEN <<PartOf(fieldPath, headers[CHOOSE i \in matching : \A j \in matching : i <= j])>>
        ELSE <<>>

RECURSIVE Parts(_, _)
Parts(headerFields, headers) ==
    IF Len(headerFields) = 0 THEN <<>>
    ELSE FieldParts(headerFields[1], headers) \o Parts(Tail(headerFields), headers)

\* An extract whose outer loop is over the headers, its inner loop over the
\* fields not yet found.
RECURSIVE PartsInKeyOrder(_, _)
PartsInKeyOrder(headerFields, headers) ==
    IF Len(headers) = 0 THEN <<>>
    ELSE LET found == {i \in 1..Len(headerFields) :
                         /\ FieldParts(headerFields[i], headers) # <<>>
                         /\ FieldParts(headerFields[i], <<headers[1]>>)
                                = FieldParts(headerFields[i], headers)}
         IN  (IF found = {} THEN <<>>
              ELSE FieldParts(headerFields[CHOOSE i \in found : \A j \in found : i <= j],
                              headers))
             \o PartsInKeyOrder(headerFields, Tail(headers))

ExtractInKeyOrder(headerFields, headers) ==
    LET parts == PartsInKeyOrder(headerFields, headers)
    IN  IF Len(parts) > 0 THEN <<" ">> \o Join(parts, <<" ">>) ELSE <<>>

\* extract(headers)
Extract(headerFields, headers) ==
    IF Len(headerFields) = 0 THEN <<>>
    ELSE LET parts == Parts(headerFields, headers)
         IN  IF Len(parts) > 0 THEN <<" ">> \o Join(parts, <<" ">>) ELSE <<>>

-----------------------------------------------------------------------------
(* Request bodies and JSON.stringify.  A body is known by its kind; json   *)
(* is the text JSON.stringify returns for it.  JSON.stringify throws a     *)
(* TypeError on a value with a circular reference.                         *)

BodyUndefined == [kind |-> "undefined", json |-> "undefined"]
BodyObject == [kind |-> "object", json |-> "{\"action\":\"create\"}"]
BodyCircular == [kind |-> "circular", json |-> ""]
BodyZero == [kind |-> "zero", json |-> "0"]
BodyEmptyString == [kind |-> "emptyString", json |-> "\"\""]
BodyFalse == [kind |-> "false", json |-> "false"]
BodyNull == [kind |-> "null", json |-> "null"]
BodyString == [kind |-> "string", json |-> "\"text\""]

\* The truthiness test `details.body` applies
Truthy(body) == body.kind \in {"object", "circular", "string"}

\* JSON.stringify(body) returns normally
Serializable(body) == body.kind # "circular"

\* The result of a call that may throw.
Returned(line) == [ok |-> TRUE, line |-> line]
Threw == [ok |-> FALSE, line |-> <<>>]

-----------------------------------------------------------------------------
(* LogMessageFormatter, built from {headerFields, logRequestBody,          *)
(* sensitiveHeaders}.                                                      *)

\* incoming(details)
Incoming(headerFields, logRequestBody, sensitiveHeaders, details) ==
    IF logRequestBody /\ Truthy(details.body) /\ ~Serializable(details.body) THEN Threw
    ELSE Returned(<<"Incoming request: method=", details.method, " path=">>
                  \o details.path
                  \o Extract(headerFields, Sanitize(sensitiveHeaders, Given(details.headers)))
                  \o (IF logRequestBody /\ Truthy(details.body)
                      THEN <<" body=", details.body.json>> ELSE <<>>))

\* details.responseData, an optional field (the middleware passes none)
ResponseData(details) ==
    IF "responseData" \in DOMAIN details THEN details.responseData ELSE BodyUndefined

\* completed(details)
Completed(details) ==
    IF Truthy(ResponseData(details)) /\ ~Serializable(ResponseData(details)) THEN Threw
    ELSE Returned(<<"Request completed: method=", details.method, " path=">>
                  \o details.path
                  \o <<" statusCode=", ToString(details.statusCode),
                       " durationMs=", details.durationMs, "ms">>
                  \o (IF Truthy(ResponseData(details))
                      THEN <<" body=", ResponseData(details).json>> ELSE <<>>))

-----------------------------------------------------------------------------
(* PathMatcher.  A compiled RegExp is its alternatives, each a sequence of *)
(* items: an atom (a literal character, '.', a character class, a group,   *)
(* or one of the assertions '^' and '$') with its quantifier.  The         *)
(* patterns of the model use literals, escaped characters, \d, '.',        *)
(* classes with ranges, groups (capturing or '(?:'), '|', '^', '$' and the *)
(* quantifiers '*', '+', '?' (greedy or lazy).                             *)

\* needsRegex(path)
NeedsRegex(path) == Includes(path, "*") \/ Includes(path, "[") \/ Includes(path, "(")

\* The characters /[.+?^${}()|[\]\\]/ escapes
RegexMetaChars == {".", "+", "?", "^", "$", "{", "}", "(", ")", "|", "[", "]", "\\"}

\* A literal pattern handed to new RegExp as written.
EscapeRegexNone(path) == path

\* path.replace(/[.+?^${}()|[\]\\]/g, '\\$&')
RECURSIVE EscapeRegex(_)
EscapeRegex(path) ==
    IF Len(path) = 0 THEN <<>>
    ELSE (IF path[1] \in RegexMetaChars THEN <<"\\", path[1]>> ELSE <<path[1]>>)
         \o EscapeRegex(Tail(path))

\* A translation of '*' that stays within one path segment.
WildcardWithinSegment(path) == Join(Split(path, "*"), <<"[", "^", "/", "]", "*">>)

\* path.split('*').join('.*')
WildcardToRegex(path) == Join(Split(path, "*"), <<".", "*">>)

\* The source handed to new RegExp: '^', regexPattern, '$'
RegexSource(path) ==
    <<"^">> \o (IF NeedsRegex(path) THEN WildcardToRegex(path) ELSE EscapeRegex(path))
            \o <<"$">>

Quantifier(c) == CASE c = "*" -> "star" [] c = "+" -> "plus" [] c = "?" -> "opt" [] OTHER -> "one"

IsQuantifier(c) == c \in {"*", "+", "?"}

\* The printable characters in the order of their code units (the grave
\* accent, which no pattern of the model has, is left out)
CodeOrder ==
    <<" ", "!", "\"", "#", "$", "%", "&", "'", "(", ")", "*", "+",
      ",", "-", ".", "/", "0", "1", "2", "3", "4", "5", "6", "7",
      "8", "9", ":", ";", "<", "=", ">", "?", "@", "A", "B", "C",
      "D", "E", "F", "G", "H", "I", "J", "K", "L", "M", "N", "O",
      "P", "Q", "R", "S", "T", "U", "V", "W", "X", "Y", "Z", "[",
      "\\", "]", "^", "_", "a", "b", "c", "d", "e", "f", "g",
      "h", "i", "j", "k", "l", "m", "n", "o", "p", "q", "r", "s",
      "t", "u", "v", "w", "x", "y", "z", "{", "|", "}", "~">>

\* The code unit of a character, counted from the space
Code(c) == CHOOSE k \in 1..Len(CodeOrder) : CodeOrder[k] = c

\* The characters of a class range lo-hi
Between(lo, hi) == {CodeOrder[k] : k \in Code(lo)..Code(hi)}

Digits == {"0", "1", "2", "3", "4", "5", "6", "7", "8", "9"}

\* One item of a compiled RegExp
Item(kind, c, set, neg, alts) ==
    [kind |-> kind, c |-> c, set |-> set, neg |-> neg, alts |-> alts, q |-> "one"]

\* What the parser returns when new RegExp throws a SyntaxError
ClassError == [ok |-> FALSE, set |-> {}, next |-> 0]
AtomError  == [ok |-> FALSE, item |-> Item("lit", "", {}, FALSE, <<>>), next |-> 0]
ItemsError == [ok |-> FALSE, items |-> <<>>, next |-> 0]
AltsError  == [ok |-> FALSE, alts |-> <<>>, next |-> 0]

\* The members of a character class from position i up to its ']': a class
\* without ']' and a range out of order are syntax errors.
RECURSIVE ClassMembers(_, _)
ClassMembers(src, i) ==
    IF i > Len(src) THEN ClassError
    ELSE IF src[i] = "]" THEN [ok |-> TRUE, set |-> {}, next |-> i + 1]
    ELSE IF src[i] = "\\" /\ i = Len(src) THEN ClassError
    ELSE LET lo      == IF src[i] = "\\" THEN src[i + 1] ELSE src[i]
             after   == IF src[i] = "\\" THEN i + 2 ELSE i + 1
             isRange == after + 1 <= Len(src) /\ src[after] = "-" /\ src[after + 1] # "]"
             hiAt    == IF isRange /\ src[after + 1] = "\\" THEN after + 2 ELSE after + 1
             next    == IF isRange THEN hiAt + 1 ELSE after
         IN  IF isRange /\ hiAt > Len(src) THEN ClassError
             ELSE IF isRange /\ Code(lo) > Code(src[hiAt]) THEN ClassError
             ELSE LET With(rest) ==
                          IF ~rest.ok THEN ClassError
                          ELSE [ok |-> TRUE,
                                set |-> (IF isRange THEN Between(lo, src[hiAt]) ELSE {lo})
                                            \cup rest.set,
                                next |-> rest.next]
                  IN  With(ClassMembers(src, next))

RECURSIVE ParseAlts(_, _)
RECURSIVE ParseItems(_, _)

\* The atom at position i: a group without ')', a class without ']', a
\* quantifier with nothing to repeat and a '\' at the end are syntax errors.
ParseAtom(src, i) ==
    CASE src[i] = "(" ->
             LET start == IF i + 2 <= Len(src) /\ src[i + 1] = "?" /\ src[i + 2] = ":"
                          THEN i + 3 ELSE i + 1
                 Group(inner) ==
                     IF inner.ok /\ inner.next <= Len(src) /\ src[inner.next] = ")"
                     THEN [ok |-> TRUE, item |-> Item("group", "", {}, FALSE, inner.alts),
                           next |-> inner.next + 1]
                     ELSE AtomError
             IN  Group(ParseAlts(src, start))
      [] src[i] = "[" ->
             LET neg == i + 1 <= Len(src) /\ src[i + 1] = "^"
                 Class(members) ==
                     IF members.ok
                     THEN [ok |-> TRUE, item |-> Item("class", "", members.set, neg, <<>>),
                           next |-> members.next]
                     ELSE AtomError
             IN  Class(ClassMembers(src, IF neg THEN i + 2 ELSE i + 1))
      [] src[i] = "\\" ->
             IF i = Len(src) THEN AtomError
             ELSE IF src[i + 1] = "d"
                  THEN [ok |-> TRUE, item |-> Item("class", "", Digits, FALSE, <<>>),
                        next |-> i + 2]
                  ELSE [ok |-> TRUE, item |-> Item("lit", src[i + 1], {}, FALSE, <<>>),
                        next |-> i + 2]
      [] src[i] = "." -> [ok |-> TRUE, item |-> Item("any", "", {}, FALSE, <<>>), next |-> i + 1]
      [] src[i] = "^" -> [ok |-> TRUE, item |-> Item("bol", "", {}, FALSE, <<>>), next |-> i + 1]
      [] src[i] = "$" -> [ok |-> TRUE, item |-> Item("eol", "", {}, FALSE, <<>>), next |-> i + 1]
      [] IsQuantifier(src[i]) -> AtomError
      [] OTHER -> [ok |-> TRUE, item |-> Item("lit", src[i], {}, FALSE, <<>>), next |-> i + 1]

\* The items from position i up to a '|', a ')' or the end of the source
ParseItems(src, i) ==
    IF i > Len(src) \/ src[i] \in {"|", ")"} THEN [ok |-> TRUE, items |-> <<>>, next |-> i]
    ELSE LET With(item, rest) ==
                 IF ~rest.ok THEN ItemsError
                 ELSE [ok |-> TRUE, items |-> <<item>> \o rest.items, next |-> rest.next]
             After(atom) ==
                 IF ~atom.ok THEN ItemsError
                 ELSE LET quantified == atom.next <= Len(src) /\ src[atom.next] \in {"*", "+", "?"}
                          afterQ     == IF quantified THEN atom.next + 1 ELSE atom.next
                          lazy       == quantified /\ afterQ <= Len(src) /\ src[afterQ] = "?"
                      IN  IF quantified /\ atom.item.kind \in {"bol", "eol"} THEN ItemsError
                          ELSE With([atom.item EXCEPT
                                        !.q = IF quantified THEN Quantifier(src[atom.next])
                                              ELSE "one"],
                                    ParseItems(src, IF lazy THEN afterQ + 1 ELSE afterQ))
         IN  After(ParseAtom(src, i))

\* The alternatives from position i up to a ')' or the end of the source
ParseAlts(src, i) ==
    LET With(first, more) ==
            IF ~more.ok THEN AltsError
            ELSE [ok |-> TRUE, alts |-> <<first.items>> \o more.alts, next |-> more.next]
        After(first) ==
            IF ~first.ok THEN AltsError
            ELSE IF first.next <= Len(src) /\ src[first.next] = "|"
            THEN With(first, ParseAlts(src, first.next + 1))
            ELSE [ok |-> TRUE, alts |-> <<first.items>>, next |-> first.next]
    IN  After(ParseItems(src, i))

\* new RegExp(src): ok = FALSE when it throws a SyntaxError (a ')' that
\* closes no group is one)
ParseRegex(src) ==
    LET Whole(parsed) ==
            IF parsed.ok /\ parsed.next = Len(src) + 1
            THEN [ok |-> TRUE, alts |-> parsed.alts]
            ELSE [ok |-> FALSE, alts |-> <<>>]
    IN  Whole(ParseAlts(src, 1))

\* '.' matches any character but a line terminator
LineTerminators == {"\n", "\r"}

AtomAccepts(item, c) ==
    CASE item.kind = "any"   -> c \notin LineTerminators
      [] item.kind = "class" -> (c \in item.set) # item.neg
      [] OTHER               -> c = item.c

RECURSIVE EndsOfAlts(_, _, _)

\* The positions of s after one match of the item's atom at position j
OnceAt(item, s, j) ==
    CASE item.kind = "group" -> EndsOfAlts(item.alts, s, {j})
      [] item.kind = "bol"   -> IF j = 1 THEN {j} ELSE {}
      [] item.kind = "eol"   -> IF j = Len(s) + 1 THEN {j} ELSE {}
      [] OTHER -> IF j <= Len(s) /\ AtomAccepts(item, s[j]) THEN {j + 1} ELSE {}

Once(item, s, from) == UNION {OnceAt(item, s, j) : j \in from}

\* The positions after any number of matches of the atom
RECURSIVE Repeated(_, _, _)
Repeated(item, s, from) ==
    LET Grown(more) == IF more = from THEN from ELSE Repeated(item, s, more)
    IN  Grown(from \cup Once(item, s, from))

\* The positions after the item, atom and quantifier
Quantified(item, s, from) ==
    LET With(once) ==
            CASE item.q = "one"  -> once
              [] item.q = "opt"  -> from \cup once
              [] item.q = "star" -> Repeated(item, s, from \cup once)
              [] item.q = "plus" -> Repeated(item, s, once)
    IN  With(Once(item, s, from))

\* The positions after a sequence of items
RECURSIVE EndsOfItems(_, _, _)
EndsOfItems(items, s, from) ==
    IF Len(items) = 0 \/ from = {} THEN from
    ELSE EndsOfItems(Tail(items), s, Quantified(items[1], s, from))

EndsOfAlts(alts, s, from) == UNION {EndsOfItems(alts[a], s, from) : a \in 1..Len(alts)}

\* pattern.test(s): the pattern matches somewhere in s
Test(regexp, s) == EndsOfAlts(regexp.alts, s, 1..(Len(s) + 1)) # {}

\* constructor: this.patterns
Patterns(ignorePaths) == [i \in 1..Len(ignorePaths) |-> ParseRegex(RegexSource(ignorePaths[i]))]

\* A constructor that keeps the patterns it cannot compile for later.
ConstructorThrowsNever(ignorePaths) == FALSE

\* constructor: a new RegExp of the map throws
ConstructorThrows(ignorePaths) == \E i \in 1..Len(ignorePaths) : ~Patterns(ignorePaths)[i].ok

\* A query strip that tests the path as received.
PathOnlyKeepQuery(path) == path

\* A query strip at the last '?' of the path.
PathOnlyBeforeLast(path) ==
    IF Includes(path, "?")
    THEN SubSeq(path, 1, (CHOOSE i \in 1..Len(path) :
                              path[i] = "?" /\ \A j \in (i + 1)..Len(path) : path[j] # "?") - 1)
    ELSE path

\* path.split('?')[0]
PathOnly(path) == Split(path, "?")[1]

\* A matcher whose patterns carry the global flag: a pattern that matched
\* starts its next test where the match ended, and that test fails.
MatchesWithGlobalFlag(ignorePaths, path) ==
    /\ \E i \in 1..Len(ignorePaths) : Test(Patterns(ignorePaths)[i], PathOnly(path))
    /\ Cardinality({q \in Rids : effects[q] = <<"next">>}) % 2 = 0

\* matches(path)
Matches(ignorePaths, path) ==
    \E i \in 1..Len(ignorePaths) : Test(Patterns(ignorePaths)[i], PathOnly(path))

-----------------------------------------------------------------------------
(* Requests, responses and options.  An absent string field and an empty   *)
(* one are both <<>>: the code tests these fields for truthiness only.     *)

NoRaw == [present |-> FALSE, originalUrl |-> <<>>, url |-> <<>>, body |-> BodyUndefined]

Request(method, originalUrl, url, path, raw, headers, body) ==
    [method |-> method, originalUrl |-> originalUrl, url |-> url, path |-> path,
     raw |-> raw, headers |-> headers, body |-> body,
     payload |-> BodyUndefined, ubody |-> BodyUndefined]

\* A response: whether it has a truthy raw, whether it has a once function,
\* its statusCode, the one-shot 'finish' listeners registered on raw and on
\* the response itself, and the emitters that have delivered 'finish'.
\* statusAtUse records the statusCode use() saw.
Response(hasRaw, hasOnce, statusCode) ==
    [hasRaw |-> hasRaw, hasOnce |-> hasOnce, statusCode |-> statusCode,
     statusAtUse |-> statusCode,
     rawListeners |-> <<>>, ownListeners |-> <<>>, finished |-> {}]

Options(headerFields, sensitiveHeaders, logRequestBody, ignorePaths, incomingCustom, completedCustom) ==
    [headerFields |-> headerFields, sensitiveHeaders |-> sensitiveHeaders,
     logRequestBody |-> logRequestBody, ignorePaths |-> ignorePaths,
     incomingRequestMessage |-> incomingCustom,
     completedRequestMessage |-> completedCustom]

-----------------------------------------------------------------------------
(* RequestLoggerMiddleware                                                 *)

\* extractPath(req)
ExtractPath(req) ==
    IF Len(req.originalUrl) > 0 THEN req.originalUrl
    ELSE IF Len(req.url) > 0 /\ req.url # <<"/">> THEN req.url
    ELSE IF req.raw.present /\ Len(req.raw.originalUrl) > 0 THEN req.raw.originalUrl
    ELSE IF req.raw.present /\ Len(req.raw.url) > 0 THEN req.raw.url
    ELSE IF Len(req.url) > 0 THEN req.url
    ELSE IF Len(req.path) > 0 THEN req.path
    ELSE <<"/">>

\* A fallback chain that passes over every falsy value.
ExtractBodyTruthy(req) ==
    IF Truthy(req.body) THEN req.body
    ELSE IF req.raw.present /\ Truthy(req.raw.body) THEN req.raw.body
    ELSE IF Truthy(req.payload) THEN req.payload
    ELSE IF Truthy(req.ubody) THEN req.ubody
    ELSE BodyUndefined

\* extractBody(req)
ExtractBody(req) ==
    IF req.body.kind # "undefined" THEN req.body
    ELSE IF req.raw.present /\ req.raw.body.kind # "undefined" THEN req.raw.body
    ELSE IF req.payload.kind # "undefined" THEN req.payload
    ELSE IF req.ubody.kind # "undefined" THEN req.ubody
    ELSE BodyUndefined

\* A caller-supplied incomingRequestMessage.  It is a function of the
\* details it is handed; this one writes out all of them.
RECURSIVE DumpHeaders(_)
DumpHeaders(headers) ==
    IF Len(headers) = 0 THEN <<>>
    ELSE <<" ">> \o headers[1].key \o <<":">> \o FormatValue(headers[1].value)
         \o DumpHeaders(Tail(headers))

CustomIncoming(details) ==
    Returned(<<"custom incoming: ", details.method, " ">> \o details.path
             \o DumpHeaders(details.headers) \o <<" body:", details.body.kind>>)

\* A caller-supplied completedRequestMessage
CustomCompleted(details) ==
    Returned(<<"custom completed: ", details.method, " ">> \o details.path
             \o <<" ", ToString(details.statusCode), " ", details.durationMs>>)

\* createFormatter(options).incoming
FormatterIncoming(opts, details) ==
    IF opts.incomingRequestMessage \/ opts.completedRequestMessage
    THEN IF opts.incomingRequestMessage THEN CustomIncoming(details)
         ELSE Returned(<<"incoming request">>)
    ELSE Incoming(IF opts.headerFields.given THEN opts.headerFields.list ELSE <<>>,
                  opts.logRequestBody, opts.sensitiveHeaders, details)

\* createFormatter(options).completed
FormatterCompleted(opts, details) ==
    IF opts.incomingRequestMessage \/ opts.completedRequestMessage
    THEN IF opts.completedRequestMessage THEN CustomCompleted(details)
         ELSE Returned(<<"request completed">>)
    ELSE Completed(details)

\* logIncomingRequest: the details handed to formatter.incoming
IncomingDetails(opts, req, method, path) ==
    [method |-> method, path |-> path,
     headers |-> IF opts.headerFields.given
                 THEN Sanitize(opts.sensitiveHeaders,
                               IF req.headers.given THEN req.headers ELSE Given(<<>>))
                 ELSE <<>>,
     body |-> IF opts.logRequestBody THEN ExtractBody(req) ELSE BodyUndefined]

\* logIncomingRequest: the message, or the exception of formatter.incoming
IncomingMessage(opts, req) ==
    FormatterIncoming(opts, IncomingDetails(opts, req, req.method, ExtractPath(req)))

\* (seconds * 1e3 + nanoseconds / 1e6).toFixed(2), from the hundredths of a
\* millisecond nearest to the elapsed time
TwoDigits(n) == IF n < 10 THEN "0" \o ToString(n) ELSE ToString(n)

DurationMs(elapsed) ==
    LET hundredths == elapsed[1] * 100000 + (elapsed[2] + 5000) \div 10000
    IN  ToString(hundredths \div 100) \o "." \o TwoDigits(hundredths % 100)

\* What process.hrtime(startTime) returns in the model: [seconds, nanoseconds]
ElapsedTimes == {<<1, 25504999>>}

\* The threshold of the change this one replaced: 3xx counted as errors.
ChannelFrom300(statusCode) == IF statusCode >= 300 THEN "error" ELSE "log"

\* onFinish: logger.error for statusCode >= 400, logger.log otherwise
Channel(statusCode) == IF statusCode >= 400 THEN "error" ELSE "log"

\* The registration of setupResponseLogging: on res.raw when it is truthy,
\* else on res when it has a once function, else nowhere
RegisterTarget(res) ==
    IF res.hasRaw THEN "raw" ELSE IF res.hasOnce THEN "own" ELSE "none"

\* The values onFinish closes over
Closure(method, path) == [method |-> method, path |-> path]

\* A registration on every emitter the response has.
RegisterOnBoth(res, closure) ==
    [res EXCEPT !.rawListeners = IF res.hasRaw THEN Append(@, closure) ELSE @,
                !.ownListeners = IF res.hasOnce THEN Append(@, closure) ELSE @]

\* A registration made twice on the target.
RegisterTwice(res, closure) ==
    CASE RegisterTarget(res) = "raw" ->
             [res EXCEPT !.rawListeners = @ \o <<closure, closure>>]
      [] RegisterTarget(res) = "own" ->
             [res EXCEPT !.ownListeners = @ \o <<closure, closure>>]
      [] OTHER -> res

\* setupResponseLogging(res, ...): the response with the listener registered
Register(res, closure) ==
    CASE RegisterTarget(res) = "raw" ->
             [res EXCEPT !.rawListeners = Append(res.rawListeners, closure)]
      [] RegisterTarget(res) = "own" ->
             [res EXCEPT !.ownListeners = Append(res.ownListeners, closure)]
      [] OTHER -> res

\* A read of the status code the response had when use() ran.
StatusAtRegistration(res) == res.statusAtUse

\* onFinish: const statusCode = res.statusCode
StatusRead(res) == res.statusCode

\* The highest-numbered request that has entered use().
LatestUsed == CHOOSE r \in Rids : phase[r] # "idle" /\ \A q \in Rids : phase[q] # "idle" => q <= r

\* Details built from one method and path kept on the middleware instance
\* and overwritten by every use().
CompletedDetailsShared(closure, res, elapsed) ==
    [method |-> reqs[LatestUsed].method, path |-> ExtractPath(reqs[LatestUsed]),
     statusCode |-> StatusRead(res), durationMs |-> DurationMs(elapsed)]

\* Details built from the request object as it is when finish is delivered.
CompletedDetailsAtFinish(closure, res, elapsed) ==
    LET req == reqs[CHOOSE q \in Rids : ress[q] = res]
    IN  [method |-> req.method, path |-> ExtractPath(req),
         statusCode |-> StatusRead(res), durationMs |-> DurationMs(elapsed)]

\* onFinish: the details handed to formatter.completed
CompletedDetails(closure, res, elapsed) ==
    [method |-> closure.method, path |-> closure.path,
     statusCode |-> StatusRead(res), durationMs |-> DurationMs(elapsed)]

\* One call of the logger: the channel, the line, and which line it is.
Emission(channel, kind, line) == [channel |-> channel, kind |-> kind, line |-> line]

\* onFinish: the logger call it makes
OnFinish(opts, closure, res, elapsed) ==
    Emission(Channel(StatusRead(res)), "completed",
             FormatterCompleted(opts, CompletedDetails(closure, res, elapsed)).line)

\* A registration with on(): the listener stays after a notification.
ListenersKept(listeners) == listeners

\* once(): a listener is removed when its notification is delivered
ListenersAfterEmit(listeners) == <<>>

\* use(), path not ignored: logIncomingRequest, setupResponseLogging, next()
UseEffects(target) ==
    <<"log">> \o (IF target # "none" THEN <<"register">> ELSE <<>>) \o <<"next">>

-----------------------------------------------------------------------------
(* The configurations and the request/response pairs of the model.         *)

PathApiUsers == <<"/", "a", "p", "i", "/", "u", "s", "e", "r", "s">>
PathApiPosts == <<"/", "a", "p", "i", "/", "p", "o", "s", "t", "s">>
PathHealthQuery == <<"/", "h", "e", "a", "l", "t", "h", "?", "c", "h", "e", "c", "k", "=", "t", "r", "u", "e">>
PathHealth == <<"/", "h", "e", "a", "l", "t", "h">>
PathStaticStar == <<"/", "s", "t", "a", "t", "i", "c", "/", "*">>
PathStaticCss == <<"/", "s", "t", "a", "t", "i", "c", "/", "c", "s", "s">>

MockHeaders ==
    Given(<<Entry(content_type, Str("application/json")),
            Entry(authorization, Str("Bearer token123"))>>)

MixedCaseHeaders ==
    Given(<<Entry(Authorization, Str("secretA")), Entry(X_Api_Key, Str("key1"))>>)

CookieHeaders == Given(<<Entry(cookie, Arr(<<"sid=1", "theme=dark">>))>>)

OptionsSet ==
    { Options(Given(<<content_type, authorization>>), NotGiven, TRUE,
              <<PathHealth, PathStaticStar>>, FALSE, FALSE),
      Options(Given(<<authorization, x_api_key>>), Given(<<X_Api_Key>>), FALSE,
              <<PathHealth>>, FALSE, FALSE),
      Options(Given(<<authorization, x_api_key, cookie>>), NotGiven, TRUE, <<>>, TRUE, FALSE),
      Options(NotGiven, Given(<<x_secret>>), TRUE, <<PathStaticStar>>, FALSE, TRUE) }

Exchange(req, res) == [req |-> req, res |-> res]

Exchanges ==
    { Exchange(Request("GET", PathApiUsers, <<>>, PathApiUsers, NoRaw, MockHeaders, BodyUndefined),
               Response(FALSE, TRUE, 200)),
      Exchange(Request("GET", PathHealthQuery, <<>>, PathHealth, NoRaw, MockHeaders, BodyUndefined),
               Response(FALSE, TRUE, 200)),
      Exchange(Request("POST", <<>>, PathApiPosts, <<>>, NoRaw, MixedCaseHeaders, BodyObject),
               Response(TRUE, TRUE, 200)),
      Exchange(Request("GET", <<>>, <<"/">>, <<>>,
                       [present |-> TRUE, originalUrl |-> <<>>, url |-> PathStaticCss,
                        body |-> BodyUndefined],
                       CookieHeaders, BodyUndefined),
               Response(TRUE, FALSE, 200)),
      Exchange(Request("DELETE", PathApiUsers, <<>>, <<>>, NoRaw, NotGiven, BodyCircular),
               Response(FALSE, FALSE, 400)),
      Exchange(Request("PUT", PathApiPosts, <<>>, <<>>, NoRaw, NotGiven, BodyCircular),
               Response(FALSE, TRUE, 200)) }

\* The status codes a handler sets
StatusCodes == {200, 399, 400}

NoRequest == Request("", <<>>, <<>>, <<>>, NoRaw, NotGiven, BodyUndefined)
NoResponse == Response(FALSE, FALSE, 0)
NoCall == [op |-> "none", sensitiveHeaders |-> NotGiven, headers |-> NotGiven,
           result |-> <<>>, done |-> FALSE]

-----------------------------------------------------------------------------
(* The middleware instance and its requests.                               *)
(*   options    the options the middleware was constructed with            *)
(*   reqs, ress the request and response objects handed to use()           *)
(*   phase      "idle" before use(), then "returned" or "threw"            *)
(*   sink       the logger's calls, by the request that caused them        *)
(*   nextCalls  the invocations of each request's next                     *)
(*   effects    what use() and onFinish did for a request, in order        *)
(*   call       the call of a utility, in the specifications of one        *)

Init ==
    /\ options \in OptionsSet
    /\ reqs = [r \in Rids |-> NoRequest]
    /\ ress = [r \in Rids |-> NoResponse]
    /\ phase = [r \in Rids |-> "idle"]
    /\ sink = [r \in Rids |-> <<>>]
    /\ nextCalls = [r \in Rids |-> 0]
    /\ effects = [r \in Rids |-> <<>>]
    /\ call = NoCall

\* use(req, res, next): the r-th call of use() on the instance
Use(r) ==
    /\ phase[r] = "idle"
    /\ \A q \in 1..(r - 1) : phase[q] # "idle"
    /\ \E ex \in Exchanges :
        LET path == ExtractPath(ex.req)
            msg  == IncomingMessage(options, ex.req)
        IN  /\ reqs' = [reqs EXCEPT ![r] = ex.req]
            /\ IF Matches(options.ignorePaths, path)
               THEN /\ ress' = [ress EXCEPT ![r] = ex.res]
                    /\ nextCalls' = [nextCalls EXCEPT ![r] = @ + 1]
                    /\ effects' = [effects EXCEPT ![r] = <<"next">>]
                    /\ phase' = [phase EXCEPT ![r] = "returned"]
                    /\ UNCHANGED sink
               ELSE IF ~msg.ok
               THEN /\ ress' = [ress EXCEPT ![r] = ex.res]
                    /\ effects' = [effects EXCEPT ![r] = <<"throw">>]
                    /\ phase' = [phase EXCEPT ![r] = "threw"]
                    /\ UNCHANGED <<sink, nextCalls>>
               ELSE /\ sink' = [sink EXCEPT ![r] = Append(@, Emission("log", "incoming", msg.line))]
                    /\ ress' = [ress EXCEPT ![r] = Register(ex.res, Closure(ex.req.method, path))]
                    /\ nextCalls' = [nextCalls EXCEPT ![r] = @ + 1]
                    /\ effects' = [effects EXCEPT ![r] = UseEffects(RegisterTarget(ex.res))]
                    /\ phase' = [phase EXCEPT ![r] = "returned"]
    /\ UNCHANGED <<options, call>>

\* The handler downstream of next() sets res.statusCode.
SetStatus(r) ==
    /\ phase[r] = "returned"
    /\ ress[r].finished = {}
    /\ \E code \in StatusCodes \ {ress[r].statusCode} :
        ress' = [ress EXCEPT ![r].statusCode = code]
    /\ UNCHANGED <<options, reqs, phase, sink, nextCalls, effects, call>>

\* The emitters of a response: its raw response when it has one, and itself
\* unless it is only a wrapper of the raw response.
Emitters(res) ==
    (IF res.hasRaw THEN {"raw"} ELSE {}) \cup (IF res.hasOnce \/ ~res.hasRaw THEN {"own"} ELSE {})

ListenersOn(res, target) == IF target = "raw" THEN res.rawListeners ELSE res.ownListeners

\* An emitter of the response delivers 'finish': every listener registered
\* on it runs onFinish.
FinishEvent(r) ==
    /\ phase[r] # "idle"
    /\ \E target \in Emitters(ress[r]), elapsed \in ElapsedTimes :
        LET listeners == ListenersOn(ress[r], target)
            emitted   == [i \in 1..Len(listeners) |->
                             OnFinish(options, listeners[i], ress[r], elapsed)]
        IN  /\ sink' = [sink EXCEPT ![r] = @ \o emitted]
            /\ effects' = [effects EXCEPT ![r] = @ \o [i \in 1..Len(listeners) |-> "completed"]]
            /\ ress' = [ress EXCEPT
                          ![r].finished = @ \cup {target},
                          ![r].rawListeners =
                              IF target = "raw" THEN ListenersAfterEmit(@) ELSE @,
                          ![r].ownListeners =
                              IF target = "own" THEN ListenersAfterEmit(@) ELSE @]
    /\ UNCHANGED <<options, reqs, phase, nextCalls, call>>

Next == \E r \in Rids : Use(r) \/ SetStatus(r) \/ FinishEvent(r)

Spec == Init /\ [][Next]_vars

-----------------------------------------------------------------------------
(* The middleware with a handler downstream of next() that rewrites the    *)
(* request object while the response is unfinished.                        *)

PathRewritten == <<"/", "v", "2">>

\* The request after the handler assigned its method and its path fields
Rewritten(req) ==
    [req EXCEPT !.method = "PATCH", !.originalUrl = PathRewritten,
                !.url = PathRewritten, !.path = PathRewritten,
                !.raw = IF @.present
                        THEN [@ EXCEPT !.originalUrl = PathRewritten, !.url = PathRewritten]
                        ELSE @]

\* The handler rewrites the request between use() and the finish notification.
Rewrite(r) ==
    /\ phase[r] = "returned"
    /\ ress[r].finished = {}
    /\ reqs[r] # Rewritten(reqs[r])
    /\ reqs' = [reqs EXCEPT ![r] = Rewritten(@)]
    /\ UNCHANGED <<options, ress, phase, sink, nextCalls, effects, call>>

NextRewrite == \E r \in Rids : Use(r) \/ Rewrite(r) \/ FinishEvent(r)

SpecRewrite == Init /\ [][NextRewrite]_vars

-----------------------------------------------------------------------------
(* HeaderSanitizer alone: one call of sanitize on a sanitizer built from a *)
(* sensitive list, over the mappings of at most MaxHeaders headers.        *)

HeaderKeys == {authorization, Authorization, x_api_key, X_Api_Key, content_type, cookie}

HeaderValues == {Str("secret"), EmptyStr, Arr(<<"a", "b">>), Null, Str("[REDACTED]")}

HeaderEntries == {Entry(k, val) : k \in HeaderKeys, val \in HeaderValues}

\* The mappings: no key twice
HeaderMaps ==
    {h \in UNION {[1..n -> HeaderEntries] : n \in 0..MaxHeaders} :
        \A i, j \in 1..Len(h) : h[i].key = h[j].key => i = j}

SensitiveLists ==
    { NotGiven, Given(<<>>), Given(<<X_Api_Key>>), Given(<<x_secret, content_type>>),
      Given(<<Authorization, cookie>>) }

\* No middleware takes part in the call of a utility.
NoMiddleware ==
    /\ options = Options(NotGiven, NotGiven, FALSE, <<>>, FALSE, FALSE)
    /\ reqs = [r \in Rids |-> NoRequest]
    /\ ress = [r \in Rids |-> NoResponse]
    /\ phase = [r \in Rids |-> "idle"]
    /\ sink = [r \in Rids |-> <<>>]
    /\ nextCalls = [r \in Rids |-> 0]
    /\ effects = [r \in Rids |-> <<>>]

\* The call of a header utility.  headers is the argument as it was when the
\* call was made; objects holds the argument object (input) and the object
\* the call creates (fresh) as they are now; returned names the object the
\* call returned; result is the returned mapping and text the returned
\* string.
HeaderCall(op, sensitiveHeaders, headerFields, headers) ==
    [op |-> op, sensitiveHeaders |-> sensitiveHeaders, headerFields |-> headerFields,
     headers |-> headers,
     objects |-> [input |-> headers, fresh |-> NotGiven],
     returned |-> "none", result |-> <<>>, text |-> <<>>, done |-> FALSE]

InitSanitize ==
    /\ NoMiddleware
    /\ \E s \in SensitiveLists, h \in {Given(m) : m \in HeaderMaps} \cup {NotGiven} :
        call = HeaderCall("sanitize", s, <<>>, h)

\* An object sanitize would write to if it redacted in place.
SanitizedInPlace == "input"

\* sanitize: const sanitized: Headers = {}, the object written and returned
Sanitized == "fresh"

\* new HeaderSanitizer(sensitiveHeaders).sanitize(headers)
SanitizeCall ==
    /\ call.op = "sanitize"
    /\ ~call.done
    /\ LET target == IF call.headers.given THEN Sanitized ELSE "fresh"
           after  == [call.objects EXCEPT
                         ![target] = Given(Sanitize(call.sensitiveHeaders, call.headers))]
       IN  call' = [call EXCEPT !.objects = after,
                                !.returned = target,
                                !.result = after[target].list,
                                !.done = TRUE]
    /\ UNCHANGED <<options, reqs, ress, phase, sink, nextCalls, effects>>

NextSanitize == SanitizeCall

SpecSanitize == InitSanitize /\ [][NextSanitize]_vars

-----------------------------------------------------------------------------
(* HeaderFieldExtractor alone: one call of extract on an extractor built   *)
(* from a field list, over the mappings of at most MaxHeaders headers.     *)

user == <<"u", "s", "e", "r">>
permissions == <<"p", "e", "r", "m", "i", "s", "s", "i", "o", "n", "s">>
admin == <<"a", "d", "m", "i", "n">>
session == <<"s", "e", "s", "s", "i", "o", "n">>
x_tags == <<"x", "-", "t", "a", "g", "s">>
x_empty == <<"x", "-", "e", "m", "p", "t", "y">>

\* 'user.permissions.admin' and 'permissions.admin'
user_permissions_admin == user \o <<".">> \o permissions \o <<".">> \o admin
permissions_admin == permissions \o <<".">> \o admin

\* {permissions: {admin: true}}
PermissionsObject == Obj(<<Entry(permissions, Obj(<<Entry(admin, Bool("true"))>>))>>)

\* {user: {permissions: {admin: true}}}
UserObject == Obj(<<Entry(user, PermissionsObject)>>)

ExtractEntries ==
    { Entry(content_type, Str("application/json")),
      Entry(Content_Type, Str("v")),
      Entry(authorization, REDACTED),
      Entry(x_tags, Arr(<<"a", "b">>)),
      Entry(x_empty, Null),
      Entry(user, PermissionsObject),
      Entry(session, UserObject) }

\* The mappings: no key twice
ExtractMaps ==
    {h \in UNION {[1..n -> ExtractEntries] : n \in 0..MaxHeaders} :
        \A i, j \in 1..Len(h) : h[i].key = h[j].key => i = j}

FieldLists ==
    { <<>>, <<content_type>>, <<Content_Type, x_api_key>>,
      <<authorization, content_type>>, <<content_type, authorization>>,
      <<x_tags, x_empty>>, <<user>>, <<user_permissions_admin>>,
      <<permissions_admin, content_type>> }

InitExtract ==
    /\ NoMiddleware
    /\ \E f \in FieldLists, m \in ExtractMaps :
        call = HeaderCall("extract", NotGiven, f, Given(m))

\* new HeaderFieldExtractor(headerFields).extract(headers): it reads the
\* mapping and creates a string.
ExtractCall ==
    /\ call.op = "extract"
    /\ ~call.done
    /\ call' = [call EXCEPT !.text = Extract(call.headerFields, call.objects.input.list),
                            !.done = TRUE]
    /\ UNCHANGED <<options, reqs, ress, phase, sink, nextCalls, effects>>

NextExtract == ExtractCall

SpecExtract == InitExtract /\ [][NextExtract]_vars

\* The two header utilities, each called once on its own.
InitHeaders == InitSanitize \/ InitExtract

NextHeaders == SanitizeCall \/ ExtractCall

SpecHeaders == InitHeaders /\ [][NextHeaders]_vars

-----------------------------------------------------------------------------
(* PathMatcher alone: the middleware's constructor builds a matcher from   *)
(* a pattern list, and matches is called once on a path.                   *)

PatPathWithDots == <<"/", "p", "a", "t", "h", ".", "w", "i", "t", "h", ".", "d", "o", "t", "s">>
PatApiVStarPublic == <<"/", "a", "p", "i", "/", "v", "*", "/", "p", "u", "b", "l", "i", "c">>
PatStarStarPng == <<"/", "*", "/", "*", ".", "p", "n", "g">>
PatApiVDigitsPublic == <<"/", "a", "p", "i", "/", "v", "[", "0", "-", "9", "]", "+", "/", "p", "u", "b", "l", "i", "c">>
PatAnchoredDigitsData == <<"^", "/", "a", "p", "i", "/", "[", "0", "-", "9", "]", "+", "/", "d", "a", "t", "a", "$">>
PatTempTmp == <<"/", "t", "e", "m", "p", "/", ".", "*", "\\", ".", "t", "m", "p">>
PatUploadsDotStar == <<"/", "u", "p", "l", "o", "a", "d", "s", "/", ".", "*">>
PatGroup == <<"/", "(", "c", "s", "s", "|", "j", "s", ")", "/", "a", "p", "p">>
PatUnclosedClass == <<"/", "a", "p", "i", "/", "v", "[", "0", "-", "9">>
PatUnclosedGroup == <<"/", "f", "i", "l", "e", "s", "/", "(", "t", "m", "p">>

PathHealthy == <<"/", "h", "e", "a", "l", "t", "h", "y">>
PathHealthCheck == <<"/", "h", "e", "a", "l", "t", "h", "-", "c", "h", "e", "c", "k">>
PathHEALTH == <<"/", "H", "E", "A", "L", "T", "H">>
PathHealthTwoQueries == <<"/", "h", "e", "a", "l", "t", "h", "?", "a", "=", "1", "?", "b", "=", "2">>
PathWithDots == <<"/", "p", "a", "t", "h", ".", "w", "i", "t", "h", ".", "d", "o", "t", "s">>
PathWithXs == <<"/", "p", "a", "t", "h", "X", "w", "i", "t", "h", "X", "d", "o", "t", "s">>
PathStaticLogo == <<"/", "s", "t", "a", "t", "i", "c", "/", "i", "m", "a", "g", "e", "s", "/", "l", "o", "g", "o", ".", "p", "n", "g">>
PathStatic == <<"/", "s", "t", "a", "t", "i", "c">>
PathStaticSlash == <<"/", "s", "t", "a", "t", "i", "c", "/">>
PathDynamicCss == <<"/", "d", "y", "n", "a", "m", "i", "c", "/", "c", "s", "s">>
PathStaticCssQuery == <<"/", "s", "t", "a", "t", "i", "c", "/", "c", "s", "s", "?", "v", "=", "1", ".", "0", ".", "0">>
PathApiV1Public == <<"/", "a", "p", "i", "/", "v", "1", "/", "p", "u", "b", "l", "i", "c">>
PathApiV12Public == <<"/", "a", "p", "i", "/", "v", "1", "2", "/", "p", "u", "b", "l", "i", "c">>
PathApiVPublic == <<"/", "a", "p", "i", "/", "v", "/", "p", "u", "b", "l", "i", "c">>
PathApiV1Private == <<"/", "a", "p", "i", "/", "v", "1", "/", "p", "r", "i", "v", "a", "t", "e">>
PathImagesLogoPng == <<"/", "i", "m", "a", "g", "e", "s", "/", "l", "o", "g", "o", ".", "p", "n", "g">>
PathImagesLogoXpng == <<"/", "i", "m", "a", "g", "e", "s", "/", "l", "o", "g", "o", "X", "p", "n", "g">>
PathApi123Data == <<"/", "a", "p", "i", "/", "1", "2", "3", "/", "d", "a", "t", "a">>
PathApiAbcData == <<"/", "a", "p", "i", "/", "a", "b", "c", "/", "d", "a", "t", "a">>
PathTempSessionTmp == <<"/", "t", "e", "m", "p", "/", "s", "e", "s", "s", "i", "o", "n", ".", "t", "m", "p">>
PathTempDotTmp == <<"/", "t", "e", "m", "p", "/", ".", "t", "m", "p">>
PathTempFileTxt == <<"/", "t", "e", "m", "p", "/", "f", "i", "l", "e", ".", "t", "x", "t">>
PathUploadsFile == <<"/", "u", "p", "l", "o", "a", "d", "s", "/", "f", "i", "l", "e", ".", "p", "d", "f">>
PathUploadsSlash == <<"/", "u", "p", "l", "o", "a", "d", "s", "/">>
PathUploads == <<"/", "u", "p", "l", "o", "a", "d", "s">>
PathCssApp == <<"/", "c", "s", "s", "/", "a", "p", "p">>
PathJsApp == <<"/", "j", "s", "/", "a", "p", "p", "?", "m", "i", "n", "=", "1">>
PathRoot == <<"/">>
PathQueryOnly == <<"?", "x", "=", "1">>

PatternLists ==
    { <<>>, <<PathHealth>>, <<PatPathWithDots>>, <<PathStaticStar>>, <<PatApiVStarPublic>>,
      <<PatStarStarPng>>, <<PatApiVDigitsPublic>>, <<PatAnchoredDigitsData>>,
      <<PatTempTmp>>, <<PatUploadsDotStar>>, <<PatGroup>>,
      <<PatUnclosedClass>>, <<PatUnclosedGroup>>,
      <<PathApiUsers, PathHealth, PathStaticStar>>,
      <<PathHealth, PatUnclosedGroup>> }

MatchPaths ==
    { PathHealth, PathHealthQuery, PathHealthy, PathHealthCheck, PathHEALTH,
      PathHealthTwoQueries, PathWithDots, PathWithXs,
      PathStaticCss, PathStaticLogo, PathStatic, PathStaticSlash, PathDynamicCss,
      PathStaticCssQuery, PathApiV1Public, PathApiV12Public, PathApiVPublic,
      PathApiV1Private, PathImagesLogoPng, PathImagesLogoXpng,
      PathApi123Data, PathApiAbcData,
      PathTempSessionTmp, PathTempDotTmp, PathTempFileTxt,
      PathUploadsFile, PathUploadsSlash, PathUploads,
      PathCssApp, PathJsApp, PathRoot, PathQueryOnly, PathApiUsers, <<>> }

\* The call of matches on the matcher of a middleware under construction:
\* matcher and middleware are "none" before the constructor ran, then
\* "built" or "threw"; outcome is "none" before matches ran.
InitMatch ==
    /\ NoMiddleware
    /\ \E list \in PatternLists, path \in MatchPaths :
        call = [op |-> "matches", ignorePaths |-> list, path |-> path,
                matcher |-> "none", middleware |-> "none",
                outcome |-> "none", result |-> FALSE, done |-> FALSE]

\* RequestLoggerMiddleware.constructor: new PathMatcher(options.ignorePaths);
\* an exception of new RegExp leaves both constructors.
ConstructCall ==
    /\ call.op = "matches"
    /\ call.matcher = "none"
    /\ LET outcome == IF ConstructorThrows(call.ignorePaths) THEN "threw" ELSE "built"
       IN  call' = [call EXCEPT !.matcher = outcome, !.middleware = outcome]
    /\ UNCHANGED <<options, reqs, ress, phase, sink, nextCalls, effects>>

\* matcher.matches(path)
MatchesCall ==
    /\ call.op = "matches"
    /\ call.matcher = "built"
    /\ ~call.done
    /\ call' = [call EXCEPT !.result = Matches(call.ignorePaths, call.path),
                            !.outcome = "returned",
                            !.done = TRUE]
    /\ UNCHANGED <<options, reqs, ress, phase, sink, nextCalls, effects>>

NextMatch == ConstructCall \/ MatchesCall

SpecMatch == InitMatch /\ [][NextMatch]_vars

-----------------------------------------------------------------------------
(* LogMessageFormatter alone: a formatter built from {headerFields,        *)
(* logRequestBody, sensitiveHeaders}, and one call of incoming.            *)

IncomingFieldLists ==
    { NotGiven, Given(<<>>), Given(<<content_type>>),
      Given(<<authorization, content_type>>), Given(<<Content_Type, x_api_key>>) }

IncomingSensitiveLists == {NotGiven, Given(<<>>), Given(<<Content_Type>>)}

IncomingEntries ==
    { Entry(content_type, Str("application/json")),
      Entry(Authorization, Str("secret")),
      Entry(x_api_key, Arr(<<"k1", "k2">>)) }

\* The mappings: no key twice
IncomingMaps ==
    {h \in UNION {[1..n -> IncomingEntries] : n \in 0..MaxHeaders} :
        \A i, j \in 1..Len(h) : h[i].key = h[j].key => i = j}

IncomingBodies ==
    { BodyUndefined, BodyObject, BodyString, BodyCircular,
      BodyZero, BodyFalse, BodyEmptyString, BodyNull }

\* RequestDetails
DetailsSet ==
    [method : {"GET", "POST"}, path : {PathApiUsers, PathRoot},
     headers : IncomingMaps, body : IncomingBodies]

InitIncoming ==
    /\ NoMiddleware
    /\ \E f \in IncomingFieldLists, b \in BOOLEAN, s \in IncomingSensitiveLists,
          d \in DetailsSet :
        call = [op |-> "incoming", headerFields |-> f, logRequestBody |-> b,
                sensitiveHeaders |-> s, details |-> d,
                outcome |-> "none", line |-> <<>>, done |-> FALSE]

\* new LogMessageFormatter(options).incoming(details); the constructor
\* takes options.headerFields ?? [].
IncomingCall ==
    /\ call.op = "incoming"
    /\ ~call.done
    /\ LET r == Incoming(IF call.headerFields.given THEN call.headerFields.list ELSE <<>>,
                         call.logRequestBody, call.sensitiveHeaders, call.details)
       IN  call' = [call EXCEPT !.outcome = IF r.ok THEN "returned" ELSE "threw",
                                !.line = r.line,
                                !.done = TRUE]
    /\ UNCHANGED <<options, reqs, ress, phase, sink, nextCalls, effects>>

NextIncoming == IncomingCall

SpecIncoming == InitIncoming /\ [][NextIncoming]_vars

-----------------------------------------------------------------------------
(* LogMessageFormatter.completed alone: one call on a formatter built from *)
(* some configuration.                                                     *)

\* CompletedRequestDetails, without and with responseData
CompletedDetailsSet ==
    [method : {"GET", "POST"}, path : {PathApiUsers, PathRoot},
     statusCode : {200, 404}, durationMs : {"25.50", "0.07"}]
    \cup
    [method : {"GET", "POST"}, path : {PathApiUsers, PathRoot},
     statusCode : {200, 404}, durationMs : {"25.50", "0.07"},
     responseData : IncomingBodies]

InitCompleted ==
    /\ NoMiddleware
    /\ \E f \in {NotGiven, Given(<<content_type>>)}, b \in BOOLEAN, d \in CompletedDetailsSet :
        call = [op |-> "completed", headerFields |-> f, logRequestBody |-> b,
                sensitiveHeaders |-> NotGiven, details |-> d,
                outcome |-> "none", line |-> <<>>, done |-> FALSE]

\* new LogMessageFormatter(options).completed(details)
CompletedCall ==
    /\ call.op = "completed"
    /\ ~call.done
    /\ LET r == Completed(call.details)
       IN  call' = [call EXCEPT !.outcome = IF r.ok THEN "returned" ELSE "threw",
                                !.line = r.line,
                                !.done = TRUE]
    /\ UNCHANGED <<options, reqs, ress, phase, sink, nextCalls, effects>>

NextCompleted == CompletedCall

SpecCompleted == InitCompleted /\ [][NextCompleted]_vars

-----------------------------------------------------------------------------
(* The readers of the request alone: extractPath(req), and the body that   *)
(* logIncomingRequest hands to formatter.incoming, each called once.       *)

\* Requests with their path-bearing fields absent, '/' or a path
PathRequests ==
    { Request("GET", o, u, p, w, NotGiven, BodyUndefined) :
        o \in {<<>>, PathApiUsers},
        u \in {<<>>, <<"/">>, PathApiPosts},
        p \in {<<>>, PathHealth},
        w \in {NoRaw} \cup
              { [present |-> TRUE, originalUrl |-> wo, url |-> wu, body |-> BodyUndefined] :
                  wo \in {<<>>, PathStaticCss}, wu \in {<<>>, <<"/">>, PathHealthQuery} } }

\* Requests with their body-bearing fields undefined or defined
BodyRequests ==
    { [Request("POST", PathApiUsers, <<>>, <<>>, w, NotGiven, b)
          EXCEPT !.payload = p, !.ubody = u] :
        b \in {BodyUndefined, BodyObject, BodyZero, BodyFalse, BodyEmptyString},
        p \in {BodyUndefined, BodyNull},
        u \in {BodyUndefined, BodyCircular},
        w \in { NoRaw,
                [present |-> TRUE, originalUrl |-> <<>>, url |-> <<>>, body |-> BodyUndefined],
                [present |-> TRUE, originalUrl |-> <<>>, url |-> <<>>, body |-> BodyString] } }

InitRequest ==
    /\ NoMiddleware
    /\ \/ \E q \in PathRequests :
            call = [op |-> "extractPath", req |-> q, logRequestBody |-> FALSE,
                    path |-> <<>>, body |-> BodyUndefined, done |-> FALSE]
       \/ \E q \in BodyRequests, b \in BOOLEAN :
            call = [op |-> "extractBody", req |-> q, logRequestBody |-> b,
                    path |-> <<>>, body |-> BodyUndefined, done |-> FALSE]

\* use: const path = this.extractPath(req)
ExtractPathCall ==
    /\ call.op = "extractPath"
    /\ ~call.done
    /\ call' = [call EXCEPT !.path = ExtractPath(call.req), !.done = TRUE]
    /\ UNCHANGED <<options, reqs, ress, phase, sink, nextCalls, effects>>

\* logIncomingRequest: body: options.logRequestBody ? this.extractBody(req) : undefined
ExtractBodyCall ==
    /\ call.op = "extractBody"
    /\ ~call.done
    /\ call' = [call EXCEPT
                   !.body = IncomingDetails(
                                Options(NotGiven, NotGiven, call.logRequestBody, <<>>, FALSE, FALSE),
                                call.req, call.req.method, ExtractPath(call.req)).body,
                   !.done = TRUE]
    /\ UNCHANGED <<options, reqs, ress, phase, sink, nextCalls, effects>>

NextRequest == ExtractPathCall \/ ExtractBodyCall

SpecRequest == InitRequest /\ [][NextRequest]_vars

-----------------------------------------------------------------------------
(* Vocabulary of the properties.                                           *)

Used(r) == phase[r] # "idle"

\* The lines of a request, by kind
Kinds(r) == [i \in 1..Len(sink[r]) |-> sink[r][i].kind]

CompletedLines(r) == {i \in 1..Len(sink[r]) : sink[r][i].kind = "completed"}

\* A listener of the request is still registered on its response.
ListenerPending(r) == Len(ress[r].rawListeners) + Len(ress[r].ownListeners) > 0

\* The emitter the request's listener was registered on has delivered 'finish'.
FinishDelivered(r) ==
    RegisterTarget(ress[r]) # "none" /\ RegisterTarget(ress[r]) \in ress[r].finished

\* The path of a request with its query string removed: the characters
\* before the first '?'.
StripQuery(path) ==
    IF \E i \in 1..Len(path) : path[i] = "?"
    THEN SubSeq(path, 1, (CHOOSE i \in 1..Len(path) :
                              path[i] = "?" /\ \A j \in 1..(i - 1) : path[j] # "?") - 1)
    ELSE path

\* A pattern covers a path: it is the path itself, or it is a prefix
\* followed by one '*' and the path starts with the prefix.
Covers(pattern, path) ==
    \/ pattern = path /\ \A i \in 1..Len(pattern) : pattern[i] \notin RegexMetaChars \cup {"*"}
    \/ /\ Len(pattern) > 0
       /\ pattern[Len(pattern)] = "*"
       /\ \A i \in 1..(Len(pattern) - 1) : pattern[i] \notin RegexMetaChars \cup {"*"}
       /\ Len(path) >= Len(pattern) - 1
       /\ SubSeq(path, 1, Len(pattern) - 1) = SubSeq(pattern, 1, Len(pattern) - 1)

\* The request's path, query string removed, is covered by an ignore pattern.
IgnoredPath(r) ==
    \E i \in 1..Len(options.ignorePaths) :
        Covers(options.ignorePaths[i], StripQuery(ExtractPath(reqs[r])))

\* The formatter that writes the completed lines puts the status code in.
CompletedHasDetails == ~options.incomingRequestMessage \/ options.completedRequestMessage

\* The method, path and status code written in a completed line that has them
LineMethod(line) == line[2]

LinePath(line) ==
    IF line[1] = "Request completed: method="
    THEN SubSeq(line, 4, IndexOf(line, " statusCode=") - 1)
    ELSE SubSeq(line, 4, Len(line) - 4)

LineStatus(line) ==
    IF line[1] = "Request completed: method="
    THEN line[IndexOf(line, " statusCode=") + 1]
    ELSE line[Len(line) - 2]

\* The lower-cased name is in the sensitive set of the configuration.
IsSensitiveName(sensitiveHeaders, k) ==
    LET lower == ToLowerCase(k)
    IN  \E m \in (IF sensitiveHeaders.given THEN Range(sensitiveHeaders.list)
                  ELSE {authorization, cookie, set_cookie, x_api_key}) :
            ToLowerCase(m) = lower

-----------------------------------------------------------------------------
(* C1 .. C10                                                               *)

\* C1 (as claimed): for every call of use(), next is invoked exactly once,
\* whatever the outcome of formatting and of emission.
C1_NextExactlyOnce == \A r \in Rids : Used(r) => nextCalls[r] = 1

\* C2 (as claimed): a non-ignored request whose emissions are final (no
\* listener is waiting for its response) caused exactly zero or exactly two
\* emissions.
C2_ZeroOrTwoEmissions ==
    \A r \in Rids :
        (Used(r) /\ ~IgnoredPath(r) /\ ~ListenerPending(r)) => Len(sink[r]) \in {0, 2}

\* C2 (amended): a request causes at most two emissions, an incoming line
\* and then a completed line; a non-ignored request whose use() returned has
\* its incoming line; the total is two exactly when the finish notification
\* has been delivered to the registered listener, and one otherwise, also
\* for good when the response offers no registration.
C2_IncomingThenAtMostOneCompleted ==
    \A r \in Rids :
        /\ Kinds(r) \in {<<>>, <<"incoming">>, <<"incoming", "completed">>}
        /\ (phase[r] = "returned" /\ ~IgnoredPath(r)) => Len(sink[r]) >= 1
        /\ Len(sink[r]) = 2 <=> (~IgnoredPath(r) /\ phase[r] = "returned" /\ FinishDelivered(r))

\* C2 witness: one request has both lines, and another, whose response
\* offers no registration, has its incoming line only after it finished.
C2_Witness ==
    \E r, q \in Rids :
        /\ Len(sink[r]) = 2
        /\ RegisterTarget(ress[q]) = "none" /\ ress[q].finished # {} /\ Len(sink[q]) = 1

\* C3: a request whose path, query string removed, is covered by an ignore
\* pattern causes no emission, has no listener registered on its response
\* and has had next invoked exactly once and nothing else done, in every
\* state after use(), also after its response finished.
C3_IgnoredPathSilent ==
    \A r \in Rids :
        (Used(r) /\ IgnoredPath(r)) =>
            /\ sink[r] = <<>>
            /\ ~ListenerPending(r)
            /\ nextCalls[r] = 1
            /\ effects[r] = <<"next">>

\* C3 witness: an ignored request with a query string whose response has
\* finished.
C3_Witness ==
    \E r \in Rids :
        /\ Used(r) /\ IgnoredPath(r)
        /\ Includes(ExtractPath(reqs[r]), "?")
        /\ ress[r].finished # {}
        /\ sink[r] = <<>> /\ nextCalls[r] = 1

\* C4: every incoming line goes to the informational channel; a completed
\* line goes to the error channel exactly when the status code of its
\* response is >= 400.
C4_ChannelRouting ==
    \A r \in Rids : \A i \in 1..Len(sink[r]) :
        /\ sink[r][i].kind = "incoming" => sink[r][i].channel = "log"
        /\ sink[r][i].kind = "completed" =>
              /\ sink[r][i].channel \in {"log", "error"}
              /\ sink[r][i].channel = "error" <=> ress[r].statusCode >= 400

\* C4 witness: a completed line with status 399 on the informational channel
\* and one with status 400 on the error channel.
C4_Witness ==
    \E r, q \in Rids :
        /\ CompletedLines(r) # {} /\ ress[r].statusCode = 399
        /\ \A i \in CompletedLines(r) : sink[r][i].channel = "log"
        /\ CompletedLines(q) # {} /\ ress[q].statusCode = 400
        /\ \A i \in CompletedLines(q) : sink[q][i].channel = "error"

\* C5: the status code written in a completed line is the one the response
\* has when finish is delivered (the handler sets it before that), not the
\* one it had when use() ran.
C5_StatusReadAtFinish ==
    \A r \in Rids : \A i \in CompletedLines(r) :
        CompletedHasDetails => LineStatus(sink[r][i].line) = ToString(ress[r].statusCode)

\* C5 witness: a completed line of a response whose status code changed
\* after use().
C5_Witness ==
    \E r \in Rids :
        /\ CompletedLines(r) # {}
        /\ CompletedHasDetails
        /\ ress[r].statusCode # ress[r].statusAtUse
        /\ \A i \in CompletedLines(r) : LineStatus(sink[r][i].line) = ToString(ress[r].statusCode)

\* The effects of a use() that got past the ignore check, in the order of
\* its statements.
SetupEffects(r) ==
    <<"log">> \o (IF RegisterTarget(ress[r]) # "none" THEN <<"register">> ELSE <<>>)
        \o <<"next">>

\* C6 (as claimed): for a non-ignored request, use() emits the incoming
\* line, registers the listener (when the response offers a registration)
\* and invokes next, in this order and inside use(); a completed line comes
\* only after; next has been invoked, the finish notification delivered or
\* not.
C6_NextInvokedInsideUse ==
    \A r \in Rids :
        (Used(r) /\ ~IgnoredPath(r)) =>
            /\ Len(effects[r]) >= Len(SetupEffects(r))
            /\ SubSeq(effects[r], 1, Len(SetupEffects(r))) = SetupEffects(r)
            /\ \A i \in (Len(SetupEffects(r)) + 1)..Len(effects[r]) :
                  effects[r][i] = "completed"
            /\ nextCalls[r] = 1

\* The same for the calls of use() that returned: what is left of C6 when
\* formatter.incoming does not throw.
NextInvokedInsideUseWhenReturned ==
    \A r \in Rids :
        (phase[r] = "returned" /\ ~IgnoredPath(r)) =>
            /\ Len(effects[r]) >= Len(SetupEffects(r))
            /\ SubSeq(effects[r], 1, Len(SetupEffects(r))) = SetupEffects(r)
            /\ \A i \in (Len(SetupEffects(r)) + 1)..Len(effects[r]) :
                  effects[r][i] = "completed"
            /\ nextCalls[r] = 1

\* C7: every completed line carries the method and the path of its own
\* request and the status code of its own response, whatever other requests
\* are in flight and in whatever order the responses finish.
C7_NoCrossContamination ==
    \A r \in Rids : \A i \in CompletedLines(r) :
        CompletedHasDetails =>
            /\ LineMethod(sink[r][i].line) = reqs[r].method
            /\ LinePath(sink[r][i].line) = ExtractPath(reqs[r])
            /\ LineStatus(sink[r][i].line) = ToString(ress[r].statusCode)
            /\ sink[r][i].channel = "error" <=> ress[r].statusCode >= 400

\* C7 witness: two requests with different methods, paths and status codes,
\* both completed, the later one while the earlier one was already through
\* use().
C7_Witness ==
    \E r, q \in Rids :
        /\ r < q
        /\ CompletedLines(r) # {} /\ CompletedLines(q) # {}
        /\ CompletedHasDetails
        /\ reqs[r].method # reqs[q].method
        /\ ExtractPath(reqs[r]) # ExtractPath(reqs[q])
        /\ ress[r].statusCode # ress[q].statusCode

\* C8 (as claimed): with body logging on and the default formatter, the
\* failure to serialize a request's body is caught: use() returns, the
\* incoming line is emitted (with a placeholder for the body) and next is
\* invoked.
C8_UnserializableBodyContained ==
    \A r \in Rids :
        (/\ Used(r) /\ ~IgnoredPath(r)
         /\ ~options.incomingRequestMessage /\ ~options.completedRequestMessage
         /\ options.logRequestBody
         /\ ~Serializable(ExtractBody(reqs[r]))) =>
            /\ phase[r] = "returned"
            /\ Kinds(r) # <<>> /\ Kinds(r)[1] = "incoming"
            /\ nextCalls[r] = 1

\* The request with the value of every sensitive header replaced by val.
WithSensitiveValues(opts, req, val) ==
    [req EXCEPT !.headers =
        IF req.headers.given
        THEN Given([i \in 1..Len(req.headers.list) |->
                       Entry(req.headers.list[i].key,
                             IF IsSensitiveName(opts.sensitiveHeaders, req.headers.list[i].key)
                             THEN val ELSE req.headers.list[i].value)])
        ELSE req.headers]

\* Other values a sensitive header could have had.
OtherValues == {Str("another-secret"), Arr(<<"s1", "s2">>), EmptyStr}

\* What formatter.incoming gives, under each configuration and for each
\* request, when the sensitive headers of the request have other values.
LinesWithOtherValues ==
    [opts \in OptionsSet |->
        [req \in {ex.req : ex \in Exchanges} |->
            {IncomingMessage(opts, WithSensitiveValues(opts, req, val)) : val \in OtherValues}]]

\* The headers of a request whose name is sensitive
SensitiveEntries(req) ==
    {i \in 1..Len(req.headers.list) :
        IsSensitiveName(options.sensitiveHeaders, req.headers.list[i].key)}

\* part occurs in line, contiguously
ContainsSeq(line, part) ==
    \E k \in 1..(Len(line) - Len(part) + 1) : SubSeq(line, k, k + Len(part) - 1) = part

\* The default formatter writes the line and extracts header j of the
\* request: a field without a dot names it, and no earlier header of the
\* mapping has the same lower-cased name.
ExtractedByDefaultFormatter(req, j) ==
    /\ ~options.incomingRequestMessage /\ ~options.completedRequestMessage
    /\ options.headerFields.given
    /\ \E f \in Range(options.headerFields.list) :
          /\ ~Includes(f, ".")
          /\ ToLowerCase(f) = ToLowerCase(req.headers.list[j].key)
    /\ \A k \in 1..(j - 1) :
          ToLowerCase(req.headers.list[k].key) # ToLowerCase(req.headers.list[j].key)

\* C9: the incoming line of a request is the line the same request would
\* have given with any other values in its sensitive headers (whether the
\* default or a custom formatter writes it); no value of a sensitive header
\* occurs in it; a sensitive header that the default formatter extracts
\* occurs in it as <name>=[REDACTED].  (A completed line is built from the
\* method, the path, the status code and the duration only.)
C9_SensitiveValuesNeverEmitted ==
    \A r \in Rids : \A i \in 1..Len(sink[r]) :
        sink[r][i].kind = "incoming" =>
            /\ LinesWithOtherValues[options][reqs[r]] = {Returned(sink[r][i].line)}
            /\ \A j \in SensitiveEntries(reqs[r]) :
                  /\ \A a \in Range(reqs[r].headers.list[j].value.v) :
                        a \notin Range(sink[r][i].line)
                  /\ ExtractedByDefaultFormatter(reqs[r], j) =>
                        ContainsSeq(sink[r][i].line,
                                    <<" ">> \o reqs[r].headers.list[j].key
                                        \o <<"=", "[REDACTED]">>)

\* C9 witness: an emitted incoming line of a request that carries a
\* sensitive header, written in mixed case, which the field list names.
C9_Witness ==
    \E r \in Rids :
        /\ Len(sink[r]) >= 1
        /\ \E j \in SensitiveEntries(reqs[r]) :
              /\ reqs[r].headers.list[j].key # ToLowerCase(reqs[r].headers.list[j].key)
              /\ ExtractedByDefaultFormatter(reqs[r], j)
              /\ ContainsSeq(sink[r][1].line, <<"=", "[REDACTED]">>)

\* C10: sanitize(H) has the keys of H, as written and in H's order; its
\* value at a key is [REDACTED] when the lower-cased key is the lower-cased
\* form of a member of the sensitive list (the list passed, or the four
\* defaults when none is), and H's value otherwise.
C10_SanitizeRedactsSensitiveOnly ==
    (call.op = "sanitize" /\ call.done /\ call.headers.given) =>
        /\ Len(call.result) = Len(call.headers.list)
        /\ \A i \in 1..Len(call.headers.list) :
              /\ call.result[i].key = call.headers.list[i].key
              /\ call.result[i].value =
                    IF IsSensitiveName(call.sensitiveHeaders, call.headers.list[i].key)
                    THEN Str("[REDACTED]")
                    ELSE call.headers.list[i].value

\* C10 witness: a passed list that names a header in another casing than
\* the mapping has it, and not the default name authorization: the first is
\* redacted (its value was no string), the second is kept.
C10_Witness ==
    /\ call.op = "sanitize" /\ call.done /\ call.headers.given
    /\ call.sensitiveHeaders.given
    /\ Len(call.headers.list) = 2
    /\ call.headers.list[1].key \notin Range(call.sensitiveHeaders.list)
    /\ call.headers.list[1].value.t # "str"
    /\ call.result[1].value = Str("[REDACTED]")
    /\ call.headers.list[2].key = authorization
    /\ call.result[2].value = Str("secret")

\* C11: a call of sanitize leaves its argument with the keys and values it
\* had and returns an object that is not its argument, also when no key is
\* sensitive; sanitize(undefined) returns an empty mapping; a call of
\* extract leaves its argument with the keys and values it had.
C11_InputsNotMutated ==
    call.done =>
        /\ call.objects.input = call.headers
        /\ call.op = "sanitize" =>
              /\ call.returned = "fresh"
              /\ call.objects.fresh = Given(call.result)
              /\ ~call.headers.given => call.result = <<>>
        /\ call.op = "extract" => call.returned = "none" /\ call.objects.fresh = NotGiven

\* C11 witness: sanitize has returned for a mapping of two headers of which
\* one is sensitive; the argument still has its value, the returned object
\* has [REDACTED].
C11_Witness ==
    /\ call.op = "sanitize" /\ call.done /\ call.headers.given
    /\ Len(call.headers.list) = 2
    /\ call.result[1].value = REDACTED /\ call.objects.input.list[1].value = Str("secret")
    /\ call.result[2] = call.headers.list[2]
    /\ call.returned = "fresh"

\* C12: matches gives for a path what it gives for the path cut before its
\* first '?', whatever the pattern list.
C12_QueryStringIgnored ==
    (call.op = "matches" /\ call.done) =>
        call.result = Matches(call.ignorePaths, StripQuery(call.path))

\* C12 witness: a path with two '?' matched by a pattern that is the path
\* before the first of them.
C12_Witness ==
    /\ call.op = "matches" /\ call.done /\ call.result
    /\ call.path = PathHealthTwoQueries
    /\ call.ignorePaths = <<PathHealth>>

\* A pattern with none of the characters that make it a regex.
PlainPattern(pattern) ==
    \A i \in 1..Len(pattern) : pattern[i] \notin {"*", "[", "("}

RECURSIVE GlobFrom(_, _, _, _)
GlobFrom(pattern, i, path, j) ==
    IF i > Len(pattern) THEN j > Len(path)
    ELSE IF pattern[i] = "*"
         THEN \E k \in j..(Len(path) + 1) : GlobFrom(pattern, i + 1, path, k)
         ELSE j <= Len(path) /\ path[j] = pattern[i] /\ GlobFrom(pattern, i + 1, path, j + 1)

Glob(pattern, path) == GlobFrom(pattern, 1, path, 1)

\* C14 (as claimed): a matcher of one pattern containing '*' matches a path
\* exactly when the whole path, query string removed, is the pattern with
\* each '*' replaced by some sequence of characters.
C14_WildcardAnySequence ==
    (call.op = "matches" /\ call.done /\ Len(call.ignorePaths) = 1
        /\ Includes(call.ignorePaths[1], "*")) =>
        call.result = Glob(call.ignorePaths[1], StripQuery(call.path))

\* The characters of the pattern other than '*' have no meaning in a regex.
WildcardAmongPlain(pattern) ==
    /\ Includes(pattern, "*")
    /\ \A i \in 1..Len(pattern) : pattern[i] \notin RegexMetaChars

\* C14 (amended): the same for the patterns whose other characters are no
\* regex metacharacters; a metacharacter beside the '*' keeps its regex
\* meaning, so '/*/*.png' matches '/images/logoXpng'.
C14_WildcardAmongPlainCharacters ==
    (call.op = "matches" /\ call.done /\ Len(call.ignorePaths) = 1) =>
        /\ WildcardAmongPlain(call.ignorePaths[1]) =>
              call.result = Glob(call.ignorePaths[1], StripQuery(call.path))
        /\ (call.ignorePaths[1] = PatStarStarPng /\ call.path = PathImagesLogoXpng) =>
              call.result

\* C14 witness: '/static/*' matches a path whose rest contains a '/'.
C14_Witness ==
    /\ call.op = "matches" /\ call.done /\ call.result
    /\ call.ignorePaths = <<PathStaticStar>>
    /\ call.path = PathStaticLogo

\* The pattern is written as a regular expression.
WrittenAsRegex(pattern) ==
    \/ Includes(pattern, "[") \/ Includes(pattern, "(") \/ Includes(pattern, "\\")
    \/ ContainsSeq(pattern, <<".", "*">>)

\* C15 (as claimed): a matcher of one pattern written as a regular
\* expression matches the paths, query string removed, that the regular
\* expression ^pattern$ matches; '/uploads/.*' matches the paths that begin
\* with '/uploads/'.
C15_RegexPatternAsWritten ==
    (call.op = "matches" /\ call.done /\ Len(call.ignorePaths) = 1
        /\ WrittenAsRegex(call.ignorePaths[1])) =>
        /\ call.result = Test(ParseRegex(<<"^">> \o call.ignorePaths[1] \o <<"$">>),
                              StripQuery(call.path))
        /\ call.ignorePaths[1] = PatUploadsDotStar =>
              call.result = (/\ Len(StripQuery(call.path)) >= Len(PathUploadsSlash)
                             /\ SubSeq(StripQuery(call.path), 1, Len(PathUploadsSlash))
                                    = PathUploadsSlash)

\* The occurrences of c in s
NumOf(s, c) == Cardinality({i \in 1..Len(s) : s[i] = c})

\* The pattern opens more groups or classes than it closes.
Unbalanced(pattern) ==
    \/ NumOf(pattern, "(") > NumOf(pattern, ")")
    \/ NumOf(pattern, "[") > NumOf(pattern, "]")

\* C16: a list with an unbalanced pattern makes the constructor of the
\* matcher throw, and with it the constructor of the middleware; matches is
\* then never called; on a matcher that was built, matches returns a
\* boolean.
C16_MalformedPatternFailsFast ==
    call.op = "matches" =>
        /\ (call.matcher # "none"
              /\ \E i \in 1..Len(call.ignorePaths) : Unbalanced(call.ignorePaths[i])) =>
              call.matcher = "threw"
        /\ call.matcher = "threw" =>
              call.middleware = "threw" /\ ~call.done /\ call.outcome = "none"
        /\ call.matcher = "built" =>
              /\ call.middleware = "built"
              /\ \A i \in 1..Len(call.ignorePaths) : ~Unbalanced(call.ignorePaths[i])
        /\ call.done =>
              call.matcher = "built" /\ call.outcome = "returned" /\ call.result \in BOOLEAN

\* C16 witness: the constructor threw for a list whose second pattern has a
\* group that is not closed.
C16_Witness ==
    /\ call.op = "matches"
    /\ call.ignorePaths = <<PathHealth, PatUnclosedGroup>>
    /\ call.matcher = "threw" /\ call.middleware = "threw"

\* The text of a value in a part: the elements of an array joined by ',',
\* the string form of any other value.
ValueText(value) ==
    IF value.t = "arr"
    THEN IF Len(value.v) = 0 THEN <<>>
         ELSE <<value.v[1]>> \o
              [i \in 1..(2 * (Len(value.v) - 1)) |->
                  IF i % 2 = 1 THEN "," ELSE value.v[(i \div 2) + 1]]
    ELSE value.v

\* Two names that differ in letter case at most.
SameName(a, b) == ToLowerCase(a) = ToLowerCase(b)

\* The keys of the mapping that bear the name of the field.
KeysNamed(headers, field) == {k \in 1..Len(headers) : SameName(headers[k].key, field)}

\* The first of them, in the iteration order of the mapping.
FirstKeyNamed(headers, field) ==
    CHOOSE k \in KeysNamed(headers, field) : \A j \in KeysNamed(headers, field) : k <= j

\* The parts of a text returned by extract.
TextParts(text) == IF text = <<>> THEN <<>> ELSE Tail(Split(text, " "))

\* s begins with prefix
StartsWith(s, prefix) == Len(s) >= Len(prefix) /\ SubSeq(s, 1, Len(prefix)) = prefix

\* C17: with a field list without dotted fields, extract(H) has one part
\* per field that names a key of H without regard to letter case, no part
\* for the other fields, and the part is the first such key as H writes it,
\* '=' and its value; with any field list, no part begins with a key of H
\* that no field names.
C17_SimpleFieldsCaseInsensitive ==
    (call.op = "extract" /\ call.done) =>
        LET H == call.headers.list
            F == call.headerFields
            parts == TextParts(call.text)
            named == {i \in 1..Len(F) : KeysNamed(H, F[i]) # {}}
        IN  /\ (\A i \in 1..Len(F) : ~Includes(F[i], ".")) =>
                  /\ Len(parts) = Cardinality(named)
                  /\ \A i \in named :
                        LET e == H[FirstKeyNamed(H, F[i])]
                        IN  e.key \o <<"=">> \o ValueText(e.value) \in Range(parts)
            /\ \A k \in 1..Len(H) :
                  (\A i \in 1..Len(F) : ~SameName(H[k].key, F[i])) =>
                      \A p \in 1..Len(parts) : ~StartsWith(parts[p], H[k].key \o <<"=">>)

\* C17 witness: the field 'content-type' finds the key 'Content-Type', and
\* the header after it, which no field names, is left out.
C17_Witness ==
    /\ call.op = "extract" /\ call.done
    /\ call.headerFields = <<content_type>>
    /\ Len(call.headers.list) = 2
    /\ call.headers.list[1] = Entry(Content_Type, Str("v"))
    /\ call.headers.list[2].key = x_tags
    /\ call.text = <<" ">> \o Content_Type \o <<"=", "v">>

\* The part extract has for a field, after a space; nothing when the field
\* has none.  A dotted field has its part from the first header whose value
\* is an object where the path of the field is defined.
SpacedPart(field, headers) ==
    IF Includes(field, ".")
    THEN LET holders == {k \in 1..Len(headers) :
                            /\ headers[k].value.t \in {"obj", "arr"}
                            /\ GetNestedValue(headers[k].value, field).t # "undefined"}
         IN  IF holders = {} THEN <<>>
             ELSE <<" ">> \o field \o <<"=">> \o
                  ValueText(GetNestedValue(
                      headers[CHOOSE k \in holders : \A j \in holders : k <= j].value, field))
    ELSE IF KeysNamed(headers, field) = {} THEN <<>>
         ELSE LET e == headers[FirstKeyNamed(headers, field)]
              IN  <<" ">> \o e.key \o <<"=">> \o ValueText(e.value)

\* The parts of the fields from the i-th on, each after a space.
RECURSIVE SpacedParts(_, _, _)
SpacedParts(fields, i, headers) ==
    IF i > Len(fields) THEN <<>>
    ELSE SpacedPart(fields[i], headers) \o SpacedParts(fields, i + 1, headers)

\* C18: extract(H) is the parts of the fields that have one, in the order
\* of the field list, each after one space: the empty string when the list
\* is empty or no field has a part, else a text that begins with one space
\* and has one space between two parts; an array value is its elements
\* joined by ',', any other value its string form.
C18_PartsInFieldOrder ==
    (call.op = "extract" /\ call.done) =>
        /\ call.text = SpacedParts(call.headerFields, 1, call.headers.list)
        /\ Len(call.headerFields) = 0 => call.text = <<>>
        /\ (\A i \in 1..Len(call.headerFields) :
                SpacedPart(call.headerFields[i], call.headers.list) = <<>>) =>
              call.text = <<>>
        /\ call.text # <<>> => call.text[1] = " " /\ call.text[2] # " "

\* C18 witness: two fields found in a mapping that has their keys in the
\* other order, and a field list whose second field has the value null.
C18_Witness ==
    /\ call.op = "extract" /\ call.done
    /\ \/ /\ call.headerFields = <<content_type, authorization>>
          /\ Keys(call.headers.list) = <<authorization, content_type>>
          /\ call.text = <<" ">> \o content_type \o <<"=", "application/json", " ">>
                             \o authorization \o <<"=", "[REDACTED]">>
       \/ /\ call.headerFields = <<x_tags, x_empty>>
          /\ Keys(call.headers.list) = <<x_empty, x_tags>>
          /\ call.text = <<" ">> \o x_tags \o <<"=", "a", ",", "b", " ">>
                             \o x_empty \o <<"=", "null">>

\* C19 (as claimed): with the one field 'h.p1. ... .pn' and a mapping whose
\* key h holds an object where the path p1. ... .pn is defined, extract
\* returns ' h.p1. ... .pn=<value>'.
C19_DottedFieldReadsHeaderObject ==
    (call.op = "extract" /\ call.done /\ Len(call.headerFields) = 1
        /\ Includes(call.headerFields[1], ".")) =>
        LET field == call.headerFields[1]
            segments == Split(field, ".")
            H == call.headers.list
        IN  \A k \in 1..Len(H) :
                (/\ H[k].key = segments[1]
                 /\ H[k].value.t = "obj"
                 /\ Walk(H[k].value, Tail(segments)).t # "undefined") =>
                    call.text = <<" ">> \o field \o <<"=">>
                                    \o ValueText(Walk(H[k].value, Tail(segments)))

\* A body that the test `details.body` lets through: not undefined, 0,
\* false, '' or null.
BodyPresent(body) == body.kind \notin {"undefined", "zero", "false", "emptyString", "null"}

\* The line claimed for a call of incoming.
ClaimedIncomingLine(c) ==
    <<"Incoming request: method=", c.details.method, " path=">>
    \o c.details.path
    \o Extract(IF c.headerFields.given THEN c.headerFields.list ELSE <<>>,
               Sanitize(c.sensitiveHeaders, Given(c.details.headers)))
    \o (IF c.logRequestBody /\ BodyPresent(c.details.body)
        THEN <<" body=", c.details.body.json>> ELSE <<>>)

\* A field of the call names header k of the details, the first of that
\* name, and the sanitizer of the call holds it for sensitive.
ExtractedSensitive(c, k) ==
    /\ c.headerFields.given
    /\ IsSensitiveName(c.sensitiveHeaders, c.details.headers[k].key)
    /\ \E i \in 1..Len(c.headerFields.list) :
          /\ KeysNamed(c.details.headers, c.headerFields.list[i]) # {}
          /\ FirstKeyNamed(c.details.headers, c.headerFields.list[i]) = k

\* What C20 says of a call that returned.
IncomingLineAsClaimed(c) ==
    /\ c.line = ClaimedIncomingLine(c)
    /\ ContainsSeq(c.line, <<" body=">>) <=> (c.logRequestBody /\ BodyPresent(c.details.body))
    /\ \A k \in 1..Len(c.details.headers) :
          ExtractedSensitive(c, k) =>
              /\ ContainsSeq(c.line, <<" ">> \o c.details.headers[k].key \o <<"=", "[REDACTED]">>)
              /\ \A a \in Range(c.details.headers[k].value.v) : a \notin Range(c.line)

\* C20 (as claimed): incoming(details) returns 'Incoming request:
\* method=<method> path=<path>', then extract(sanitize(details.headers)),
\* then ' body=<JSON of the body>' exactly when the formatter logs bodies
\* and the body is truthy; an extracted sensitive header shows [REDACTED].
C20_IncomingLineExact ==
    (call.op = "incoming" /\ call.done) =>
        call.outcome = "returned" /\ IncomingLineAsClaimed(call)

\* The same for the calls of incoming that returned: what is left of C20
\* when JSON.stringify does not throw.
IncomingLineExactWhenReturned ==
    (call.op = "incoming" /\ call.done /\ call.outcome = "returned") =>
        IncomingLineAsClaimed(call)

\* incoming throws exactly on a truthy body with a circular reference when
\* the formatter logs bodies.
IncomingThrowsOnCircularOnly ==
    (call.op = "incoming" /\ call.done) =>
        (call.outcome = "threw" <=>
            (call.logRequestBody /\ call.details.body.kind = "circular"))


-----------------------------------------------------------------------------
(* C21 .. C30                                                              *)

\* The line of a completed call without its body part.
CompletedHead(d) ==
    <<"Request completed: method=", d.method, " path=">> \o d.path
    \o <<" statusCode=", ToString(d.statusCode), " durationMs=", d.durationMs, "ms">>

\* The details of the call have a responseData that is not undefined.
HasResponseData(d) == "responseData" \in DOMAIN d /\ d.responseData.kind # "undefined"

\* C21 (as claimed): completed(details) returns 'Request completed:
\* method=<method> path=<path> statusCode=<code> durationMs=<duration>ms',
\* then ' body=<JSON of responseData>' exactly when responseData is present,
\* whatever the configuration of the formatter.
C21_CompletedLineExact ==
    (call.op = "completed" /\ call.done) =>
        /\ call.outcome = "returned"
        /\ call.line = CompletedHead(call.details)
                         \o (IF HasResponseData(call.details)
                             THEN <<" body=", call.details.responseData.json>> ELSE <<>>)

\* What holds of the calls of completed that returned: the body part is
\* there exactly for a truthy responseData.
CompletedLineExactWhenReturned ==
    (call.op = "completed" /\ call.done /\ call.outcome = "returned") =>
        call.line = CompletedHead(call.details)
                      \o (IF HasResponseData(call.details) /\ BodyPresent(call.details.responseData)
                          THEN <<" body=", call.details.responseData.json>> ELSE <<>>)

\* completed throws exactly on a responseData with a circular reference.
CompletedThrowsOnCircularOnly ==
    (call.op = "completed" /\ call.done) =>
        (call.outcome = "threw" <=>
            (HasResponseData(call.details) /\ call.details.responseData.kind = "circular"))


\* The first available value in the order of C22.
ClaimedPath(req) ==
    IF req.originalUrl # <<>> THEN req.originalUrl
    ELSE IF req.url # <<>> /\ req.url # <<"/">> THEN req.url
    ELSE IF req.raw.present /\ req.raw.originalUrl # <<>> THEN req.raw.originalUrl
    ELSE IF req.raw.present /\ req.raw.url # <<>> THEN req.raw.url
    ELSE IF req.path # <<>> THEN req.path
    ELSE <<"/">>

\* C22 (as claimed): the effective path is req.originalUrl when non-empty,
\* else req.url when non-empty and not '/', else the nested raw request's
\* originalUrl, then its url, else req.path, else '/'; a req.url of '/' is
\* never taken ahead of a non-empty req.path.
C22_EffectivePathOrder ==
    (call.op = "extractPath" /\ call.done) => call.path = ClaimedPath(call.req)

\* What holds instead: the order of C22, but for a req.url of '/' that the
\* nested raw request does not replace: then the path is '/', whatever
\* req.path is.
PathOrderWithRootUrl ==
    (call.op = "extractPath" /\ call.done) =>
        call.path =
            IF /\ call.req.originalUrl = <<>> /\ call.req.url = <<"/">>
               /\ ~(call.req.raw.present
                      /\ (call.req.raw.originalUrl # <<>> \/ call.req.raw.url # <<>>))
            THEN <<"/">>
            ELSE ClaimedPath(call.req)

\* The root url wins over a path: the case that refutes C22.
RootUrlBeforePath ==
    /\ call.op = "extractPath" /\ call.done
    /\ call.req.url = <<"/">> /\ call.req.path = PathHealth
    /\ call.path = <<"/">>

\* The first defined value among the body-bearing fields, in the order of
\* C27.
ClaimedBody(req) ==
    LET fields  == <<req.body,
                     IF req.raw.present THEN req.raw.body ELSE BodyUndefined,
                     req.payload, req.ubody>>
        defined == {i \in 1..4 : fields[i].kind # "undefined"}
    IN  IF defined = {} THEN BodyUndefined
        ELSE fields[CHOOSE i \in defined : \A j \in defined : i <= j]

\* C27: the body handed to the incoming formatter is undefined when
\* logRequestBody is off; when it is on it is the first defined value among
\* req.body, the nested raw request's body, req.payload and req._body, and
\* undefined when none is; a req.body of 0, false or '' is taken.
C27_BodyFallbackOrder ==
    (call.op = "extractBody" /\ call.done) =>
        /\ ~call.logRequestBody => call.body = BodyUndefined
        /\ call.logRequestBody => call.body = ClaimedBody(call.req)
        /\ (call.logRequestBody /\ call.req.body.kind \in {"zero", "false", "emptyString"}) =>
              call.body = call.req.body

\* C27 witness: with logRequestBody on, a req.body of 0 is handed over
\* although the nested raw request, req.payload and req._body have bodies.
C27_Witness ==
    /\ call.op = "extractBody" /\ call.done /\ call.logRequestBody
    /\ call.req.raw.present /\ call.req.raw.body = BodyString
    /\ call.req.payload = BodyNull /\ call.req.ubody = BodyCircular
    /\ call.req.body = BodyZero
    /\ call.body = BodyZero


\* The line of an emission of request r has the default format of its kind.
HasDefaultFormat(r, i) ==
    IF sink[r][i].kind = "incoming"
    THEN StartsWith(sink[r][i].line,
                    <<"Incoming request: method=", reqs[r].method, " path=">>
                        \o ExtractPath(reqs[r]))
    ELSE StartsWith(sink[r][i].line,
                    <<"Request completed: method=", reqs[r].method, " path=">>
                        \o ExtractPath(reqs[r])
                        \o <<" statusCode=", ToString(ress[r].statusCode), " durationMs=">>)

\* C23 (as claimed): a kind of line for which no formatter was supplied has
\* the default format, also when a formatter was supplied for the other
\* kind.
C23_FormattersDefaultIndependently ==
    \A r \in Rids : \A i \in 1..Len(sink[r]) :
        /\ (sink[r][i].kind = "incoming" /\ ~options.incomingRequestMessage) =>
              HasDefaultFormat(r, i)
        /\ (sink[r][i].kind = "completed" /\ ~options.completedRequestMessage) =>
              HasDefaultFormat(r, i)

\* What holds instead: the default format when neither formatter was
\* supplied; when one was, the other kind of line is a fixed text without
\* method, path, status code or duration.
FormattersDefaultTogether ==
    \A r \in Rids : \A i \in 1..Len(sink[r]) :
        /\ (~options.incomingRequestMessage /\ ~options.completedRequestMessage) =>
              HasDefaultFormat(r, i)
        /\ (sink[r][i].kind = "incoming"
              /\ ~options.incomingRequestMessage /\ options.completedRequestMessage) =>
              sink[r][i].line = <<"incoming request">>
        /\ (sink[r][i].kind = "completed"
              /\ options.incomingRequestMessage /\ ~options.completedRequestMessage) =>
              sink[r][i].line = <<"request completed">>

\* A fixed text is emitted: the case that refutes C23.
FixedTextsEmitted ==
    \E r \in Rids :
        /\ Len(sink[r]) = 2
        /\ \/ sink[r][1].line = <<"incoming request">>
           \/ sink[r][2].line = <<"request completed">>


\* The request got past the ignore check and its response offers a
\* registration of a finish listener.
OffersRegistration(r) ==
    Used(r) /\ ~IgnoredPath(r) /\ RegisterTarget(ress[r]) # "none"

\* C24 (as claimed): for a non-ignored request whose response offers a
\* finish registration, once the finish notification has fired exactly one
\* completed line is there (the listener runs inside the delivery, so the
\* line that is eventually emitted is emitted by then); until it fires, and
\* for good when it never does, there is no completed line and the request
\* is Pending with its incoming line only: no other step emits one.
C24_CompletedIffFinished ==
    \A r \in Rids :
        OffersRegistration(r) =>
            /\ FinishDelivered(r) => Cardinality(CompletedLines(r)) = 1
            /\ ~FinishDelivered(r) => Kinds(r) = <<"incoming">>

\* The same for the calls of use() that returned: the completed line is
\* there, after the incoming line, exactly when the notification has been
\* delivered.
CompletedIffFinishedWhenReturned ==
    \A r \in Rids :
        (OffersRegistration(r) /\ phase[r] = "returned") =>
            /\ FinishDelivered(r) => Kinds(r) = <<"incoming", "completed">>
            /\ ~FinishDelivered(r) => Kinds(r) = <<"incoming">>

\* A use() that threw registered nothing: the notification of its response
\* fires and no line at all is there.
FinishedWithoutCompletedLine ==
    \E r \in Rids :
        /\ OffersRegistration(r) /\ phase[r] = "threw"
        /\ FinishDelivered(r)
        /\ sink[r] = <<>>


\* C25: in every step, whatever request it belongs to, the lines of each
\* request only grow (a request never goes back from Completed to Pending
\* or from Pending to nothing), a request has at most one completed line,
\* and a step that adds a completed line is the delivery of the finish
\* notification to the request's listener, adds that line alone, and adds
\* it after the request's own incoming line, leaving the lines of every
\* other request as they were.
C25_PendingThenCompletedOnce ==
    [][\A r \in Rids :
          /\ Len(sink'[r]) >= Len(sink[r])
          /\ SubSeq(sink'[r], 1, Len(sink[r])) = sink[r]
          /\ Cardinality(CompletedLines(r)') <= 1
          /\ CompletedLines(r)' # CompletedLines(r) =>
                /\ ~FinishDelivered(r) /\ FinishDelivered(r)'
                /\ Kinds(r) = <<"incoming">>
                /\ Kinds(r)' = <<"incoming", "completed">>
                /\ \A q \in Rids \ {r} : sink'[q] = sink[q]]_vars

\* C25 witness: two requests in flight together, the later one Completed
\* while the earlier one is still Pending with its listener registered.
C25_Witness ==
    \E r, q \in Rids :
        /\ r < q
        /\ Kinds(q) = <<"incoming", "completed">> /\ FinishDelivered(q)
        /\ Kinds(r) = <<"incoming">> /\ ListenerPending(r) /\ ress[r].finished = {}


\* The registrations use() made for a request
Registrations(r) == Cardinality({i \in 1..Len(effects[r]) : effects[r][i] = "register"})

\* The listener of a request is where setupResponseLogging puts it: one on
\* the raw response and none on the response itself when the response has a
\* truthy raw, one on the response itself when it has no raw and has a once
\* function, until the emitter delivers finish and drops it; none otherwise.
ListenerOnTarget(r) ==
    LET target == RegisterTarget(ress[r])
        waiting(t) == IF target = t /\ t \notin ress[r].finished THEN 1 ELSE 0
    IN  /\ Registrations(r) = (IF target = "none" THEN 0 ELSE 1)
        /\ Len(ress[r].rawListeners) = waiting("raw")
        /\ Len(ress[r].ownListeners) = waiting("own")

\* C26 (as claimed): for every non-ignored request, the listener is
\* registered exactly once and on exactly one target, the raw response when
\* the response has a truthy raw, else the response itself when it has a
\* once function, never both; when the response offers neither, nothing is
\* registered, use() has still emitted the incoming line and invoked next,
\* and no completed line is ever there.
C26_ListenerOnExactlyOneTarget ==
    \A r \in Rids :
        (Used(r) /\ ~IgnoredPath(r)) =>
            /\ ListenerOnTarget(r)
            /\ RegisterTarget(ress[r]) = "none" =>
                  /\ Kinds(r) = <<"incoming">>
                  /\ nextCalls[r] = 1

\* The same for the calls of use() that returned: what is left of C26 when
\* formatter.incoming does not throw.
ListenerOnExactlyOneTargetWhenReturned ==
    \A r \in Rids :
        (phase[r] = "returned" /\ ~IgnoredPath(r)) =>
            /\ ListenerOnTarget(r)
            /\ RegisterTarget(ress[r]) = "none" =>
                  /\ Kinds(r) = <<"incoming">>
                  /\ nextCalls[r] = 1

\* A use() that threw, for a response that offers a registration: nothing
\* was registered on it; and one for a response that offers none: no
\* incoming line, and next not invoked.
ThrewBeforeRegistration ==
    \E r, q \in Rids :
        /\ phase[r] = "threw" /\ ~IgnoredPath(r)
        /\ RegisterTarget(ress[r]) = "own" /\ Registrations(r) = 0 /\ ~ListenerPending(r)
        /\ ress[r].finished = {}
        /\ phase[q] = "threw" /\ ~IgnoredPath(q)
        /\ RegisterTarget(ress[q]) = "none" /\ sink[q] = <<>> /\ nextCalls[q] = 0


\* The formatter that writes the incoming lines puts the method and the
\* path in.
IncomingHasDetails == options.incomingRequestMessage \/ ~options.completedRequestMessage

\* An incoming line that has them carries this method and this path: the
\* method after the opening text, and the path after the next text, ended
\* by the end of the line or by the text that follows it.
IncomingCarries(line, method, path) ==
    /\ Len(line) >= 3 + Len(path)
    /\ line[2] = method
    /\ SubSeq(line, 4, 3 + Len(path)) = path
    /\ Len(line) > 3 + Len(path) => line[4 + Len(path)] \notin Range(path) \cup Range(PathRewritten)

\* The closures of the listeners registered for a request
Closures(r) == Range(ress[r].rawListeners) \cup Range(ress[r].ownListeners)

\* C28: the method and the path of a request's completed line are those
\* use() captured when it was entered, whatever the handler assigns to the
\* request's method and path fields before the finish notification: the
\* step of use() registers a listener that holds the method and the
\* effective path of the request as it was handed over, the ones its
\* incoming line carries; no later step changes what a registered listener
\* holds; and the step that adds the completed line writes the method and
\* path the listener holds, equal to those of the incoming line.
C28_CompletedLineFromCapture ==
    [][\A r \in Rids :
          /\ (phase[r] = "idle" /\ phase'[r] = "returned") =>
                \A c \in Closures(r)' :
                    /\ c = [method |-> reqs'[r].method, path |-> ExtractPath(reqs'[r])]
                    /\ IncomingHasDetails => IncomingCarries(sink'[r][1].line, c.method, c.path)
          /\ phase[r] # "idle" => Closures(r)' \subseteq Closures(r)
          /\ (CompletedLines(r)' # CompletedLines(r) /\ CompletedHasDetails) =>
                \A c \in Closures(r) :
                    LET line == sink'[r][Len(sink'[r])].line
                    IN  /\ LineMethod(line) = c.method
                        /\ LinePath(line) = c.path
                        /\ IncomingHasDetails =>
                              IncomingCarries(sink[r][1].line, LineMethod(line), LinePath(line))]_vars

\* C28 witness: a request whose method and path fields were rewritten
\* after use() and before finish, with a completed line that has neither
\* the rewritten method nor the rewritten path.
C28_Witness ==
    \E r \in Rids :
        /\ reqs[r].method = "PATCH" /\ ExtractPath(reqs[r]) = PathRewritten
        /\ CompletedHasDetails /\ IncomingHasDetails
        /\ Kinds(r) = <<"incoming", "completed">>
        /\ LineMethod(sink[r][2].line) # "PATCH"
        /\ LinePath(sink[r][2].line) # PathRewritten
        /\ IncomingCarries(sink[r][1].line, LineMethod(sink[r][2].line), LinePath(sink[r][2].line))


\* A response without its finish listeners, and the number it has
Unregistered(res) == [res EXCEPT !.rawListeners = <<>>, !.ownListeners = <<>>]

ListenerCount(res) == Len(res.rawListeners) + Len(res.ownListeners)

\* C29: the step of use() leaves the request as it was handed over (method,
\* path fields, headers, body fields) and the response as it was handed
\* over but for at most one finish listener, and none when the path is
\* ignored; after use() no step writes the request; the delivery of the
\* finish notification, with the listener it runs, leaves res.statusCode
\* and the shape of the response as they were and registers nothing; the
\* status code changes only in a step of the handler, which emits no line.
C29_RequestAndResponseUnchanged ==
    [][\A r \in Rids :
          /\ (phase[r] = "idle" /\ phase'[r] # "idle") =>
                \E ex \in Exchanges :
                    /\ reqs'[r] = ex.req
                    /\ Unregistered(ress'[r]) = ex.res
                    /\ ListenerCount(ress'[r]) <= 1
                    /\ IgnoredPath(r)' => ListenerCount(ress'[r]) = 0
          /\ phase[r] # "idle" =>
                /\ reqs'[r] = reqs[r]
                /\ ress'[r].hasRaw = ress[r].hasRaw /\ ress'[r].hasOnce = ress[r].hasOnce
                /\ ListenerCount(ress'[r]) <= ListenerCount(ress[r])
                /\ (ress'[r].finished # ress[r].finished \/ sink'[r] # sink[r]) =>
                      ress'[r].statusCode = ress[r].statusCode
                /\ ress'[r].statusCode # ress[r].statusCode =>
                      /\ sink' = sink
                      /\ ListenerCount(ress'[r]) = ListenerCount(ress[r])]_vars

\* C29 witness: a request with both lines, its sensitive header redacted
\* in the incoming line, that is still the request of an exchange, with the
\* response of that exchange but for the delivered notification; and an
\* ignored request whose response got no listener and has finished.
C29_Witness ==
    \E r, q \in Rids : \E ex, ey \in Exchanges :
        /\ Kinds(r) = <<"incoming", "completed">>
        /\ Includes(sink[r][1].line, "[REDACTED]")
        /\ reqs[r] = ex.req /\ ex.req.headers.given
        /\ [ress[r] EXCEPT !.finished = {}] = ex.res
        /\ Used(q) /\ IgnoredPath(q)
        /\ reqs[q] = ey.req
        /\ ress[q].finished # {} /\ [ress[q] EXCEPT !.finished = {}] = ey.res


\* What use() did for a request is a function of the request and of the
\* configuration: two requests with the same fields got the same decision
\* of the matcher, the same outcome and the same incoming line, whichever
\* came first and whatever was in flight; the decision is that of the ignore
\* patterns on the request's path, and the incoming line is the one the
\* formatter gives for the request's own method, path, headers and body.
OutputsFromInputOnly ==
    /\ \A r, q \in Rids :
          (Used(r) /\ Used(q) /\ reqs[r] = reqs[q]) =>
              /\ phase[r] = phase[q]
              /\ (effects[r] = <<"next">>) = (effects[q] = <<"next">>)
              /\ (sink[r] = <<>>) = (sink[q] = <<>>)
              /\ sink[r] # <<>> => sink[r][1] = sink[q][1]
    /\ \A r \in Rids :
          Used(r) =>
              /\ (effects[r] = <<"next">>) = IgnoredPath(r)
              /\ sink[r] # <<>> =>
                    sink[r][1] = Emission("log", "incoming", IncomingMessage(options, reqs[r]).line)

====
